---- MODULE Spec2Model ----
(***************************************************************************)
(* Verification model of browser-flow's browser_wrapper:                   *)
(*   - StagehandPage._wait_for_settled_dom (the DOM settle monitor), as a  *)
(*     timed state machine over the asyncio event loop;                    *)
(*   - StagehandPage.ordinal_for_frame_id / encode_with_frame_id (the      *)
(*     frame-ordinal table behind EncodedId);                              *)
(*   - StagehandContext's frame registry (register_frame_id and friends)   *)
(*     and the creation, navigation and close of page wrappers;            *)
(*   - the page-switch lock: LivePageProxy on one side, the handlers of    *)
(*     the browser context's "page" event on the other.                    *)
(* Time is counted in milliseconds.  The event loop is single threaded:    *)
(* every action below is one callback or one task step run to its next     *)
(* await.                                                                  *)
(***************************************************************************)
EXTENDS Integers, Sequences, FiniteSets, TLC

(***************************************************************************)
(* Bounds of the model                                                     *)
(***************************************************************************)
\* number of request ids the browser uses during one wait
MaxReq == 2
\* longest step of the clock between two callbacks, in ms
TickMs == 250
\* the browser starts no request later than this, in ms after the wait began
LastStartMs == 1000
\* number of protocol frame ids a page sees
MaxFrames == 2
\* largest step of the session clock, in seconds (it stops at every wait_for deadline)
ClockTickS == 30
\* the session clock stops here
MaxClockS == 60
\* number of protocol sessions the browser hands out to one page wrapper
MaxSessions == 3
\* number of nodes in the accessibility tree the browser reports
MaxAxNodes == 4
\* number of nodes in the tree DOM.getDocument returns
MaxDomNodes == 3
\* longest path given to deep_locator, in symbols (the sample path is longer)
MaxPathLen == 5

(***************************************************************************)
(* Program constants                                                       *)
(***************************************************************************)
QuietMs == 500
SweepMs == 500
StallMs == 2000
DomSettleTimeoutMs == 3000
GetattrDefaultMs == 30000

\* Python's None, a missing attribute, and the empty string
None == -1
NoAttr == -2
EmptyStr == 0
\* asyncio.wait_for(acquire_lock(), timeout=30) in LivePageProxy
StabilityTimeoutS == 30
\* asyncio.wait_for(handle_with_lock(), timeout=30) in _handle_new_page
PageSwitchTimeoutS == 30

ReqIds == 1..MaxReq
DocFrames == {"FA", "FB"}
\* (type, frameId) of a Network.requestWillBeSent event
RequestKinds ==
  {<<"Document", f>> : f \in DocFrames}
    \cup {<<"XHR", "none">>, <<"WebSocket", "none">>, <<"EventSource", "none">>}
TimeoutArgs == {None, 250, 30000}

SettleEvents ==
  {"Network.requestWillBeSent", "Network.loadingFinished", "Network.loadingFailed",
   "Network.requestServedFromCache", "Network.responseReceived", "Page.frameStoppedLoading"}

VARIABLES
  pc,            \* position of the coroutine _wait_for_settled_dom
  now,           \* loop time since monitoring started, in ms
  timeout_ms,    \* the argument of the call
  timeout,       \* the ceiling computed from it
  inflight,      \* set of request ids
  meta,          \* request id -> start time
  doc_by_frame,  \* frame id -> request id of its Document request
  quiet_timer,   \* the quiet TimerHandle (NoTimer when the variable is None)
  sweep_task,    \* the stalled-request sweep task
  timeout_task,  \* the ceiling task
  done_event,    \* asyncio.Event
  listeners,     \* event names whose handler is registered on the CDP session
  resolvedBy,    \* history: who called resolve_done first / how the wait ended
  resolveCount,  \* history: number of calls of resolve_done
  emptySince,    \* history: since when inflight has been empty (None if it is not)
  returnedAt,    \* history: time of the return
  loggedCount,   \* history: outstanding count logged by timeout_guard (None if none)
  stream,        \* history: "none": no event yet; "one": a single tracked request
                 \* start, before resolution, and nothing else; "other"
  nStarted,      \* environment: number of request ids the browser has used
  tracked,       \* history: the ids whose tracked start was observed in this call
                 \* and that no later event or sweep has ended
  raised,        \* history: the call ended with an exception
  fid_ordinals,  \* StagehandPage._fid_ordinals
  root_frame_id, \* StagehandPage._root_frame_id
  received,      \* history: (fid, backend id) -> EncodedId returned by the first call
  seenOrder,     \* history: frame ids in order of first sighting
  last_call,     \* history: the last ordinal/encode call and its result
  sweptAt,       \* observer of the scripted stream: time of the sweep that removed a request
  finished,      \* observer of the scripted stream: requests ended by loadingFinished
  last_event     \* observer of the handlers: the callback the loop ran last

settleVars ==
  <<pc, now, timeout_ms, timeout, inflight, meta, doc_by_frame, quiet_timer, sweep_task,
    timeout_task, done_event, listeners, resolvedBy, resolveCount, emptySince,
    returnedAt, loggedCount, stream, raised, nStarted, tracked>>

ordVars == <<fid_ordinals, root_frame_id, received, seenOrder, last_call>>

obsVars == <<sweptAt, finished, last_event>>

VARIABLES
  frame_id_map,  \* StagehandContext._frame_id_map: protocol frame id -> StagehandPage
  reg_call       \* history: the last call on the frame registry and what it returned

regVars == <<frame_id_map, reg_call>>

VARIABLES
  page_map,          \* StagehandContext._page_map: Playwright page -> StagehandPage
  sh_root_frame_id,  \* StagehandPage._root_frame_id of every wrapper ("" is EmptyStr)
  close_listeners,   \* Playwright page -> wrappers whose on_close is registered (once)
  nav_listeners,     \* Playwright page -> wrappers whose on_frame_navigated is
                     \* registered on a CDP session of the page
  browser_root,      \* environment: the protocol id of each page's root frame
  closed,            \* environment: the Playwright pages that are closed
  jobs               \* the running calls of _create_stagehand_page and their callers

ctxVars ==
  <<page_map, sh_root_frame_id, close_listeners, nav_listeners, browser_root, closed, jobs>>

VARIABLES
  active_stagehand_page, \* StagehandContext._active_stagehand_page
  st_page,               \* Stagehand._page, written by Stagehand._set_active_page
  st_stagehand_page,     \* Stagehand._stagehand_page, written by Stagehand.init
  lock_holder,           \* Stagehand._page_switch_lock: the task that holds it
  lock_waiters,          \* Stagehand._page_switch_lock: the queue of waiting tasks
  clock,                 \* loop time of the session, in seconds
  deadline,              \* task -> the time its asyncio.wait_for gives up (None: no wait)
  op,                    \* the call made through Stagehand.page (LivePageProxy)
  errors_logged,         \* history: the handlers that have logged an error
  events                 \* environment: pages whose "page" event has been emitted

switchVars ==
  <<active_stagehand_page, st_page, st_stagehand_page, lock_holder, lock_waiters, clock,
    deadline, op, errors_logged, events>>

VARIABLES
  a11y_pc,        \* where the call of StagehandPage.get_a11y_tree stands
  parent_frame,   \* environment: child frame -> Frame.parent_frame, fixed per call
  frame_stack,    \* get_accessibility_tree_with_frames: frame_stack
  snapshots,      \* get_accessibility_tree_with_frames: snapshots, in fetch order
  a11y_log,       \* history: the frames whose failure was passed to logger
  overlay_warning,\* history: clear_overlays failed and the warning was printed
  a11y_result,    \* the dict that get_a11y_tree returned to the action layer
  a11y_text       \* the outline and the xpath map of that dict, as text

a11yVars ==
  <<a11y_pc, parent_frame, frame_stack, snapshots, a11y_log, overlay_warning, a11y_result,
    a11y_text>>

VARIABLES
  cdp_clients,     \* StagehandPage._cdp_clients: target -> session (None: no entry)
  cdp_calls,       \* the running calls of get_cdp_client, one per task
  next_session,    \* environment: the next session object new_cdp_session hands out
  created,         \* history: target -> sessions new_cdp_session created for it
  handed_out       \* history: target -> sessions get_cdp_client returned for it

cdpVars == <<cdp_clients, cdp_calls, next_session, created, handed_out>>

VARIABLES
  ax_nodes,      \* the flat list of AX nodes given to build_hierarchical_tree
  ax_pc,         \* "idle", "loaded", "built", "recleaned"
  ax_tree,       \* cleaned_roots, the 'tree' of the TreeResult
  ax_recleaned   \* the roots of ax_tree after one more clean_structural_nodes

axVars == <<ax_nodes, ax_pc, ax_tree, ax_recleaned>>

VARIABLES
  loc_pc,        \* deep_locator: "idle" or "returned"
  loc_path,      \* the xpath argument, a sequence of characters and step names
  loc_result     \* the locator returned: the frame descents and the final selector

locVars == <<loc_pc, loc_path, loc_result>>

VARIABLES
  sh_pc,         \* deep_locator_with_shadow: "idle", "resolving", "returned", "raised"
  tokens,        \* xpath.split("/")
  sh_i,          \* index of the token being handled (1-based)
  sh_j,          \* index where the shadow segment being resolved ends
  ctx,           \* the locator calls applied to the root so far
  buffer,        \* steps not flushed yet
  element_scoped,
  seg,           \* the shadow segment being resolved
  sh_outcome,    \* what the last evaluate in the page told
  sh_error,      \* the exception raised, "none" when there is none
  sh_result      \* the locator returned: empty, or one chain of locator calls

shVars ==
  <<sh_pc, tokens, sh_i, sh_j, ctx, buffer, element_scoped, seg, sh_outcome, sh_error,
    sh_result>>

VARIABLES
  dom_pc,        \* build_backend_id_maps: "idle" or "returned"
  dom,           \* the tree DOM.getDocument returned
  dom_walk       \* the maps returned, with the table of ordinals and the nodes popped

domVars == <<dom_pc, dom, dom_walk>>

VARIABLES
  inj_pc,        \* inject_subtrees: "idle", "walking" or "returned"
  inj_tree,      \* the argument tree, as its lines
  inj_map,       \* the argument id_to_tree: EncodedId -> lines of the subtree
  inj_walk,      \* the locals stack, out and visited
  inj_log,       \* history: the subtrees pushed, each with the place of its anchor in out
  inj_steps      \* history: number of iterations of the while loop

injVars == <<inj_pc, inj_tree, inj_map, inj_walk, inj_log, inj_steps>>

VARIABLES
  flow_pc,       \* the node of the SH graph that runs next ("idle": no run)
  flow_state,    \* the SHState of the run: done, step_count, max_steps, next_action
  cond_evals     \* history: number of calls of ConditionalNode.execute in this run

flowVars == <<flow_pc, flow_state, cond_evals>>

lateVars == <<injVars, flowVars>>

utilVars == <<cdpVars, axVars, locVars, shVars, domVars, lateVars>>

sessionVars == <<regVars, ctxVars, switchVars, a11yVars, utilVars>>

vars == <<settleVars, ordVars, obsVars, sessionVars>>

(***************************************************************************)
(* DOM settle monitor                                                      *)
(***************************************************************************)
NoTimer == [due |-> None, live |-> FALSE]
NoTask == [state |-> "none", wake |-> None]

\* timeout_ms or getattr(self._stagehand, "dom_settle_timeout_ms", 30000)
getattr_dom_settle(attr) == IF attr = NoAttr THEN GetattrDefaultMs ELSE attr

settle_timeout(arg, attr) ==
  IF arg # None /\ arg # 0 THEN arg ELSE getattr_dom_settle(attr)

\* mutant: the handle is left armed
clear_quiet_keeps(q) == q

\* clear_quiet: cancel the handle and forget it
clear_quiet(q) == NoTimer

\* mutant: the delay of the quiet timer is wrong
maybe_quiet_long_delay(infl, q, t) ==
  IF Cardinality(infl) = 0 /\ q = NoTimer
    THEN [due |-> t + QuietMs + QuietMs, live |-> TRUE]
    ELSE q

\* mutant: the timer is armed without looking at the in-flight set
maybe_quiet_ignores_inflight(infl, q, t) ==
  IF q = NoTimer THEN [due |-> t + QuietMs, live |-> TRUE] ELSE q

\* maybe_quiet: arm the 500 ms timer when nothing is in flight and none is armed
maybe_quiet(infl, q, t) ==
  IF Cardinality(infl) = 0 /\ q = NoTimer
    THEN [due |-> t + QuietMs, live |-> TRUE]
    ELSE q

\* mutant: the sweep forces nothing out
stalled_never(m, t) == {}

\* the requests the sweep forces out at time t
stalled(m, t) == {r \in DOMAIN m : t - m[r] > StallMs}

\* mutant: the ceiling resolves only when nothing is pending
timeout_guard_skips_pending(done) == ~done /\ inflight = {}

\* if not done_event.is_set() in timeout_guard
timeout_guard_resolves(done) == ~done

\* mutant: the finally block forgets the quiet timer
finally_quiet_forgotten(q) == q

\* finally: if quiet_timer: quiet_timer.cancel()
finally_quiet(q) == IF q # NoTimer THEN [q EXCEPT !.live = FALSE] ELSE q

Restrict(f, S) == [x \in S |-> f[x]]

EmptySinceAfter(infl2) ==
  IF infl2 = {} THEN (IF inflight = {} THEN emptySince ELSE now) ELSE None

StreamAfter(kind) ==
  IF stream = "none" /\ kind = "start" THEN "one" ELSE "other"

SettleInit ==
  /\ pc = "init"
  /\ now = 0
  /\ timeout_ms = None
  /\ timeout = None
  /\ inflight = {}
  /\ meta = <<>>
  /\ doc_by_frame = <<>>
  /\ quiet_timer = NoTimer
  /\ sweep_task = NoTask
  /\ timeout_task = NoTask
  /\ done_event = FALSE
  /\ listeners = {}
  /\ resolvedBy = "none"
  /\ resolveCount = 0
  /\ emptySince = None
  /\ returnedAt = None
  /\ loggedCount = None
  /\ stream = "none"
  /\ raised = FALSE
  /\ nStarted = 0
  /\ tracked = {}

\* lines 240-386: the synchronous set-up up to the first await on done_event
StartWait(arg) ==
  /\ pc = "init"
  /\ pc' = "waiting"
  /\ timeout_ms' = arg
  /\ timeout' = settle_timeout(arg, DomSettleTimeoutMs)
  /\ inflight' = {}
  /\ meta' = <<>>
  /\ doc_by_frame' = <<>>
  /\ listeners' = SettleEvents
  /\ sweep_task' = [state |-> "sleeping", wake |-> now + SweepMs]
  /\ timeout_task' = [state |-> "sleeping", wake |-> now + timeout']
  /\ quiet_timer' = maybe_quiet({}, NoTimer, now)
  /\ emptySince' = now
  /\ UNCHANGED <<now, done_event, resolvedBy, resolveCount, returnedAt, loggedCount,
                 stream, raised, nStarted, tracked>>

\* resolve_done
resolve_done ==
  /\ quiet_timer' = clear_quiet(quiet_timer)
  /\ sweep_task' = IF sweep_task.state = "sleeping"
                     THEN [sweep_task EXCEPT !.state = "cancelled"]
                     ELSE sweep_task
  /\ done_event' = TRUE
  /\ resolveCount' = resolveCount + 1

\* mutant: every request in flight is dropped with the finished one
finish_req_drops_all(rid) ==
  IF rid \notin inflight
    THEN UNCHANGED <<inflight, meta, doc_by_frame, quiet_timer, emptySince>>
    ELSE /\ inflight' = {}
         /\ meta' = <<>>
         /\ doc_by_frame' = <<>>
         /\ quiet_timer' = maybe_quiet(inflight', clear_quiet(quiet_timer), now)
         /\ emptySince' = EmptySinceAfter(inflight')

\* mutant: no early return for a request that is not in flight
finish_req_without_guard(rid) ==
  /\ inflight' = inflight \ {rid}
  /\ meta' = Restrict(meta, DOMAIN meta \ {rid})
  /\ doc_by_frame' =
       Restrict(doc_by_frame, {f \in DOMAIN doc_by_frame : doc_by_frame[f] # rid})
  /\ quiet_timer' = maybe_quiet(inflight', clear_quiet(quiet_timer), now)
  /\ emptySince' = EmptySinceAfter(inflight')

\* finish_req
finish_req(rid) ==
  IF rid \notin inflight
    THEN UNCHANGED <<inflight, meta, doc_by_frame, quiet_timer, emptySince>>
    ELSE /\ inflight' = inflight \ {rid}
         /\ meta' = Restrict(meta, DOMAIN meta \ {rid})
         /\ doc_by_frame' =
              Restrict(doc_by_frame, {f \in DOMAIN doc_by_frame : doc_by_frame[f] # rid})
         /\ quiet_timer' = maybe_quiet(inflight', clear_quiet(quiet_timer), now)
         /\ emptySince' = EmptySinceAfter(inflight')

Delivered(ev) == pc = "waiting" /\ ev \in listeners

EventFrame ==
  UNCHANGED <<pc, now, timeout_ms, timeout, sweep_task, timeout_task, done_event,
              listeners, resolvedBy, resolveCount, returnedAt, loggedCount, raised>>

\* mutant: only WebSocket streams are left out
untracked_type_websocket_only(type) == type = "WebSocket"

\* if params.get("type") in ["WebSocket", "EventSource"]: return
untracked_type(type) == type \in {"WebSocket", "EventSource"}

\* on_request
on_request(rid, type, fid) ==
  /\ Delivered("Network.requestWillBeSent")
  /\ now <= LastStartMs
  /\ rid \in inflight \/ rid = nStarted + 1
  /\ IF untracked_type(type)
       THEN /\ UNCHANGED <<inflight, meta, doc_by_frame, quiet_timer, emptySince>>
            /\ stream' = StreamAfter("ignored")
            /\ nStarted' = nStarted
       ELSE /\ inflight' = inflight \cup {rid}
            /\ meta' = [r \in DOMAIN meta \cup {rid} |-> IF r = rid THEN now ELSE meta[r]]
            /\ doc_by_frame' =
                 IF type = "Document" /\ fid # "none"
                   THEN [f \in DOMAIN doc_by_frame \cup {fid} |->
                           IF f = fid THEN rid ELSE doc_by_frame[f]]
                   ELSE doc_by_frame
            /\ quiet_timer' = clear_quiet(quiet_timer)
            /\ emptySince' = EmptySinceAfter(inflight')
            /\ stream' = StreamAfter(IF rid \in inflight \/ done_event
                                       THEN "again" ELSE "start")
            /\ nStarted' = IF rid \in inflight THEN nStarted ELSE rid
  /\ tracked' = IF type \in {"WebSocket", "EventSource"} THEN tracked ELSE tracked \cup {rid}
  /\ EventFrame

\* on_finish
on_finish(rid) ==
  /\ Delivered("Network.loadingFinished")
  /\ finish_req(rid)
  /\ stream' = StreamAfter("finish")
  /\ nStarted' = nStarted
  /\ tracked' = tracked \ {rid}
  /\ EventFrame

\* on_failed
on_failed(rid) ==
  /\ Delivered("Network.loadingFailed")
  /\ finish_req(rid)
  /\ stream' = StreamAfter("finish")
  /\ nStarted' = nStarted
  /\ tracked' = tracked \ {rid}
  /\ EventFrame

\* on_cached
on_cached(rid) ==
  /\ Delivered("Network.requestServedFromCache")
  /\ finish_req(rid)
  /\ stream' = StreamAfter("finish")
  /\ nStarted' = nStarted
  /\ tracked' = tracked \ {rid}
  /\ EventFrame

\* on_data_url
on_data_url(rid, isDataUrl) ==
  /\ Delivered("Network.responseReceived")
  /\ IF isDataUrl
       THEN finish_req(rid)
       ELSE UNCHANGED <<inflight, meta, doc_by_frame, quiet_timer, emptySince>>
  /\ stream' = StreamAfter("response")
  /\ nStarted' = nStarted
  /\ tracked' = IF isDataUrl THEN tracked \ {rid} ELSE tracked
  /\ EventFrame

\* on_frame_stop
on_frame_stop(fid) ==
  /\ Delivered("Page.frameStoppedLoading")
  /\ IF fid \in DOMAIN doc_by_frame
       THEN finish_req(doc_by_frame[fid])
       ELSE UNCHANGED <<inflight, meta, doc_by_frame, quiet_timer, emptySince>>
  /\ stream' = StreamAfter("frame_stop")
  /\ nStarted' = nStarted
  /\ tracked' = IF fid \in DOMAIN doc_by_frame
                  THEN tracked \ {doc_by_frame[fid]} ELSE tracked
  /\ EventFrame

\* the quiet TimerHandle runs: loop.call_later(0.5, resolve_done)
quiet_fire ==
  /\ pc \in {"waiting", "cleanup"}
  /\ quiet_timer.live
  /\ quiet_timer.due <= now
  /\ resolve_done
  /\ resolvedBy' = IF resolvedBy = "none" THEN "quiet" ELSE resolvedBy
  /\ UNCHANGED <<pc, now, timeout_ms, timeout, inflight, meta, doc_by_frame, timeout_task,
                 listeners, emptySince, returnedAt, loggedCount, stream, raised, nStarted, tracked>>

\* one round of sweep_stalled_requests: wake from sleep(0.5), sweep, maybe_quiet, sleep again
sweep_stalled_requests ==
  /\ pc \in {"waiting", "cleanup"}
  /\ sweep_task.state = "sleeping"
  /\ sweep_task.wake <= now
  /\ inflight' = inflight \ stalled(meta, now)
  /\ meta' = Restrict(meta, DOMAIN meta \ stalled(meta, now))
  /\ quiet_timer' = maybe_quiet(inflight', quiet_timer, now)
  /\ sweep_task' = IF done_event
                     THEN [state |-> "done", wake |-> None]
                     ELSE [state |-> "sleeping", wake |-> now + SweepMs]
  /\ emptySince' = EmptySinceAfter(inflight')
  /\ tracked' = tracked \ stalled(meta, now)
  /\ UNCHANGED <<pc, now, timeout_ms, timeout, doc_by_frame, timeout_task, done_event,
                 listeners, resolvedBy, resolveCount, returnedAt, loggedCount, stream,
                 raised, nStarted>>

\* timeout_guard wakes from sleep(timeout / 1000)
timeout_guard ==
  /\ pc \in {"waiting", "cleanup"}
  /\ timeout_task.state = "sleeping"
  /\ timeout_task.wake <= now
  /\ timeout_task' = [timeout_task EXCEPT !.state = "done"]
  /\ IF timeout_guard_resolves(done_event)
       THEN /\ loggedCount' = IF Cardinality(inflight) > 0
                                THEN Cardinality(inflight) ELSE loggedCount
            /\ resolve_done
            /\ resolvedBy' = IF resolvedBy = "none" THEN "ceiling" ELSE resolvedBy
       ELSE UNCHANGED <<loggedCount, quiet_timer, sweep_task, done_event, resolveCount,
                        resolvedBy>>
  /\ UNCHANGED <<pc, now, timeout_ms, timeout, inflight, meta, doc_by_frame, listeners,
                 emptySince, returnedAt, stream, raised, nStarted, tracked>>

\* finally, lines 393-403: detach the listeners, cancel the quiet timer and the sweep
finally_detach ==
  /\ listeners' = {}
  /\ quiet_timer' = finally_quiet(quiet_timer)
  /\ sweep_task' = IF sweep_task.state = "sleeping"
                     THEN [sweep_task EXCEPT !.state = "cancelled"]
                     ELSE sweep_task
  /\ pc' = "cleanup"

\* await done_event.wait() returns
wake_waiter ==
  /\ pc = "waiting"
  /\ done_event
  /\ finally_detach
  /\ UNCHANGED <<now, timeout_ms, timeout, inflight, meta, doc_by_frame, timeout_task,
                 done_event, resolvedBy, resolveCount, emptySince, returnedAt,
                 loggedCount, stream, raised, nStarted, tracked>>

\* the caller's task is cancelled while it awaits done_event.wait()
cancel_caller ==
  /\ pc = "waiting"
  /\ ~done_event
  /\ finally_detach
  /\ raised' = TRUE
  /\ resolvedBy' = "cancel"
  /\ UNCHANGED <<now, timeout_ms, timeout, inflight, meta, doc_by_frame, timeout_task,
                 done_event, resolveCount, emptySince, returnedAt, loggedCount, stream,
                 nStarted, tracked>>

\* finally, lines 408-413: cancel the ceiling task, then the coroutine returns
finally_timeout ==
  /\ pc = "cleanup"
  /\ timeout_task' = IF timeout_task.state = "sleeping"
                       THEN [timeout_task EXCEPT !.state = "cancelled"]
                       ELSE timeout_task
  /\ pc' = "returned"
  /\ returnedAt' = now
  /\ UNCHANGED <<now, timeout_ms, timeout, inflight, meta, doc_by_frame, quiet_timer,
                 sweep_task, done_event, listeners, resolvedBy, resolveCount, emptySince,
                 loggedCount, stream, raised, nStarted, tracked>>

\* deadlines of the callbacks the loop still has to run
Deadlines ==
  (IF quiet_timer.live THEN {quiet_timer.due} ELSE {})
    \cup (IF sweep_task.state = "sleeping" THEN {sweep_task.wake} ELSE {})
    \cup (IF timeout_task.state = "sleeping" THEN {timeout_task.wake} ELSE {})

\* time passes while the caller is suspended and no callback is due
advance ==
  /\ pc = "waiting"
  /\ ~done_event
  /\ \A d \in Deadlines : d > now
  /\ now' = IF \E d \in Deadlines : d < now + TickMs
              THEN CHOOSE d \in Deadlines : \A e \in Deadlines : d <= e
              ELSE now + TickMs
  /\ UNCHANGED <<pc, timeout_ms, timeout, inflight, meta, doc_by_frame, quiet_timer,
                 sweep_task, timeout_task, done_event, listeners, resolvedBy,
                 resolveCount, emptySince, returnedAt, loggedCount, stream, raised,
                 nStarted, tracked>>

(***************************************************************************)
(* Frame ordinals and EncodedId                                            *)
(* A protocol frame id is modelled as a number above 100, Python's None as *)
(* None, a string as the sequence of its characters.                       *)
(***************************************************************************)
FrameIds == {100 + i : i \in 1..MaxFrames}
BackendIds == {9, 10}

DigitChar(d) ==
  CASE d = 0 -> "0" [] d = 1 -> "1" [] d = 2 -> "2" [] d = 3 -> "3" [] d = 4 -> "4"
    [] d = 5 -> "5" [] d = 6 -> "6" [] d = 7 -> "7" [] d = 8 -> "8" [] d = 9 -> "9"

RECURSIVE FormatNat(_)
FormatNat(n) ==
  IF n < 10 THEN <<DigitChar(n)>> ELSE FormatNat(n \div 10) \o <<DigitChar(n % 10)>>

\* str(int), as an f-string field renders it
FormatInt(n) == IF n < 0 THEN <<"-">> \o FormatNat(0 - n) ELSE FormatNat(n)

\* self._fid_ordinals = {None: 0}
InitialOrdinals == [f \in {None} |-> 0]

\* mutant: the next ordinal is one too small
ordinal_for_frame_id_off_by_one(tab, fid) ==
  IF fid = None
    THEN [ret |-> 0, tab |-> tab]
    ELSE IF fid \in DOMAIN tab
      THEN [ret |-> tab[fid], tab |-> tab]
      ELSE LET next_ordinal == Cardinality(DOMAIN tab) - 1
           IN  [ret |-> next_ordinal,
                tab |-> [f \in DOMAIN tab \cup {fid} |->
                           IF f = fid THEN next_ordinal ELSE tab[f]]]

\* mutant: the cached ordinal is not looked up
ordinal_for_frame_id_uncached(tab, fid) ==
  IF fid = None
    THEN [ret |-> 0, tab |-> tab]
    ELSE LET next_ordinal == Cardinality(DOMAIN tab)
         IN  [ret |-> next_ordinal,
              tab |-> [f \in DOMAIN tab \cup {fid} |->
                         IF f = fid THEN next_ordinal ELSE tab[f]]]

\* ordinal_for_frame_id: the value returned and the table afterwards
ordinal_for_frame_id(tab, fid) ==
  IF fid = None
    THEN [ret |-> 0, tab |-> tab]
    ELSE IF fid \in DOMAIN tab
      THEN [ret |-> tab[fid], tab |-> tab]
      ELSE LET next_ordinal == Cardinality(DOMAIN tab)
           IN  [ret |-> next_ordinal,
                tab |-> [f \in DOMAIN tab \cup {fid} |->
                           IF f = fid THEN next_ordinal ELSE tab[f]]]

\* mutant: the two fields are written in the wrong order
encode_with_frame_id_swapped(tab, fid, backend_id) ==
  LET o == ordinal_for_frame_id(tab, fid)
  IN  [ret |-> FormatInt(backend_id) \o <<"-">> \o FormatInt(o.ret), tab |-> o.tab]

\* encode_with_frame_id: f"{self.ordinal_for_frame_id(fid)}-{backend_id}"
encode_with_frame_id(tab, fid, backend_id) ==
  LET o == ordinal_for_frame_id(tab, fid)
  IN  [ret |-> FormatInt(o.ret) \o <<"-">> \o FormatInt(backend_id), tab |-> o.tab]

\* reset_frame_ordinals
reset_frame_ordinals(tab) == InitialOrdinals

SeenAfter(fid) ==
  IF fid = None \/ (\E i \in 1..Len(seenOrder) : seenOrder[i] = fid)
    THEN seenOrder
    ELSE Append(seenOrder, fid)

OrdInit ==
  /\ fid_ordinals = InitialOrdinals
  /\ root_frame_id = EmptyStr
  /\ received = <<>>
  /\ seenOrder = <<>>
  /\ last_call = [op |-> "new"]

\* StagehandPage.init: the root frame id reported by the browser is stored
PageInit(root_id) ==
  /\ root_frame_id = EmptyStr
  /\ root_frame_id' = root_id
  /\ UNCHANGED <<fid_ordinals, received, seenOrder, last_call>>

OrdinalCall(fid) ==
  LET o == ordinal_for_frame_id(fid_ordinals, fid)
  IN  /\ fid_ordinals' = o.tab
      /\ last_call' = [op |-> "ordinal", fid |-> fid, ret |-> o.ret, before |-> fid_ordinals]
      /\ seenOrder' = SeenAfter(fid)
      /\ UNCHANGED <<root_frame_id, received>>

EncodeCall(fid, backend_id) ==
  LET e == encode_with_frame_id(fid_ordinals, fid, backend_id)
      key == <<fid, backend_id>>
  IN  /\ fid_ordinals' = e.tab
      /\ last_call' = [op |-> "encode", fid |-> fid, backend_id |-> backend_id,
                       ret |-> e.ret, before |-> fid_ordinals]
      /\ seenOrder' = SeenAfter(fid)
      /\ received' = [k \in DOMAIN received \cup {key} |->
                        IF k = key
                          THEN (IF key \in DOMAIN received THEN received[key] ELSE {})
                                 \cup {e.ret}
                          ELSE received[k]]
      /\ UNCHANGED root_frame_id

ResetCall ==
  /\ fid_ordinals' = reset_frame_ordinals(fid_ordinals)
  /\ received' = <<>>
  /\ seenOrder' = <<>>
  /\ last_call' = [op |-> "reset"]
  /\ UNCHANGED root_frame_id

(***************************************************************************)
(* StagehandContext: the frame registry                                    *)
(* A StagehandPage object is named by the Playwright page it wraps and the *)
(* call that constructed it; NoPage is Python's None in a place that holds *)
(* a StagehandPage.  Root frame ids of pages are numbers above 200.        *)
(***************************************************************************)
PwPages == {"A", "P", "Q"}
Creators == {"init", "GP", "GQ", "DP", "DQ", "L1", "L2"}
NoPage == <<"none", "none">>
InitPage == <<"A", "init">>
InitialRoot == [pw \in PwPages |-> CASE pw = "A" -> 201 [] pw = "P" -> 202 [] pw = "Q" -> 203]

register_frame_id_keeps_first(map, frame_id, page) ==
  IF frame_id \in DOMAIN map THEN map
  ELSE [x \in DOMAIN map \cup {frame_id} |-> IF x = frame_id THEN page ELSE map[x]]

\* self._frame_id_map[frame_id] = page
register_frame_id(map, frame_id, page) ==
  [x \in DOMAIN map \cup {frame_id} |-> IF x = frame_id THEN page ELSE map[x]]

\* if frame_id in self._frame_id_map: del self._frame_id_map[frame_id]
unregister_frame_id(map, frame_id) ==
  IF frame_id \in DOMAIN map THEN Restrict(map, DOMAIN map \ {frame_id}) ELSE map

\* self._frame_id_map.get(frame_id)
get_stagehand_page_by_frame_id(map, frame_id) ==
  IF frame_id \in DOMAIN map THEN map[frame_id] ELSE NoPage

RegIds == {InitialRoot[pw] : pw \in PwPages}
RegPages == {InitPage, <<"P", "DP">>, <<"P", "L1">>}

RegInit ==
  /\ frame_id_map = [f \in {InitialRoot["A"]} |-> InitPage]
  /\ reg_call = [op |-> "none"]

RegisterCall(frame_id, page) ==
  /\ frame_id_map' = register_frame_id(frame_id_map, frame_id, page)
  /\ reg_call' = [op |-> "register", frame_id |-> frame_id, page |-> page]

UnregisterCall(frame_id) ==
  /\ frame_id_map' = unregister_frame_id(frame_id_map, frame_id)
  /\ reg_call' = [op |-> "unregister", frame_id |-> frame_id,
                  known |-> frame_id \in DOMAIN frame_id_map]

LookupCall(frame_id) ==
  /\ reg_call' = [op |-> "lookup", frame_id |-> frame_id,
                  ret |-> get_stagehand_page_by_frame_id(frame_id_map, frame_id)]
  /\ UNCHANGED frame_id_map

(***************************************************************************)
(* StagehandContext: page wrappers                                         *)
(* _create_stagehand_page suspends twice: in StagehandPage.init, until the *)
(* CDP session answers Page.getFrameTree, and in                           *)
(* _attach_frame_navigated_listener, until its own session answers.  A     *)
(* call on a closed page fails; a call on an open page may fail too.       *)
(***************************************************************************)
NavIds == {301, 302}
JobIds == Creators \ {"init"}
AllPages == {InitPage, <<"A", "GP">>, <<"A", "GQ">>, <<"P", "DP">>, <<"Q", "DQ">>,
             <<"P", "L1">>, <<"P", "L2">>}
IdleJob == [st |-> "idle", pw |-> "none", sh |-> NoPage]
PagesOf(pw) == {w \in AllPages : w[1] = pw}

\* the outcomes an awaited CDP call on page pw can have
CallOutcomes(pw) == IF pw \in closed THEN {FALSE} ELSE BOOLEAN

RECURSIVE UnregisterAll(_, _)
UnregisterAll(map, ids) ==
  IF ids = {} THEN map
  ELSE LET f == CHOOSE x \in ids : TRUE
       IN UnregisterAll(unregister_frame_id(map, f), ids \ {f})

CtxInit ==
  /\ page_map = [pw \in PwPages |-> IF pw = "A" THEN InitPage ELSE NoPage]
  /\ sh_root_frame_id =
       [w \in AllPages |-> IF w = InitPage THEN InitialRoot["A"] ELSE EmptyStr]
  /\ close_listeners = [pw \in PwPages |-> IF pw = "A" THEN {InitPage} ELSE {}]
  /\ nav_listeners = [pw \in PwPages |-> {}]
  /\ browser_root = InitialRoot
  /\ closed = {}
  /\ jobs = [j \in JobIds |-> IdleJob]

\* StagehandPage(pw_page, ...).init() is entered and suspends in get_cdp_client
start_create(j, pw) == [jobs EXCEPT ![j] = [st |-> "init", pw |-> pw, sh |-> NoPage]]

\* StagehandPage.init resumes with the root id: update_root_frame_id,
\* register_frame_id; _create_stagehand_page stores the wrapper in _page_map
page_init_registered(j) ==
  LET pw == jobs[j].pw
      w == <<pw, j>>
      root_id == browser_root[pw]
  IN /\ sh_root_frame_id' = [sh_root_frame_id EXCEPT ![w] = root_id]
     /\ frame_id_map' = register_frame_id(frame_id_map, root_id, w)
     /\ page_map' = [page_map EXCEPT ![pw] = w]

\* _attach_frame_navigated_listener resumes with the frame tree:
\* update_root_frame_id, register_frame_id, pw_page.once("close", on_close).
\* on_frame_navigated is defined but not registered here: the statement
\* cdp_session.on("Page.frameNavigated", ...) is part of its own body.
attach_frame_navigated_listener(pw, sh_page) ==
  LET root_id == browser_root[pw]
  IN /\ sh_root_frame_id' = [sh_root_frame_id EXCEPT ![sh_page] = root_id]
     /\ frame_id_map' = register_frame_id(frame_id_map, root_id, sh_page)
     /\ close_listeners' = [close_listeners EXCEPT ![pw] = @ \cup {sh_page}]

\* on_close of every registered wrapper: unregister its frame_id if it has one
on_close(map, pw) ==
  UnregisterAll(map, {sh_root_frame_id[w] : w \in close_listeners[pw]} \ {EmptyStr})

\* on_frame_navigated of one wrapper, for a frame without parent
on_frame_navigated(st, pw, sh_page, frame_id) ==
  LET old_id == st.roots[sh_page]
      moved == [map |-> register_frame_id(
                          IF old_id # EmptyStr THEN unregister_frame_id(st.map, old_id)
                          ELSE st.map, frame_id, sh_page),
                roots |-> [st.roots EXCEPT ![sh_page] = frame_id],
                nav |-> st.nav]
      seen == IF frame_id = old_id THEN st ELSE moved
  IN [seen EXCEPT !.nav = [@ EXCEPT ![pw] = @ \cup {sh_page}]]

RECURSIVE EmitFrameNavigated(_, _, _, _)
EmitFrameNavigated(st, pw, handlers, frame_id) ==
  IF handlers = {} THEN st
  ELSE LET h == CHOOSE x \in handlers : TRUE
       IN EmitFrameNavigated(on_frame_navigated(st, pw, h, frame_id), pw,
                             handlers \ {h}, frame_id)

\* get_stagehand_page(pw) by a caller: creates a wrapper when the page has none
GetStagehandPage(j, pw) ==
  /\ jobs[j].st = "idle"
  /\ IF page_map[pw] = NoPage
       THEN jobs' = start_create(j, pw)
       ELSE jobs' = [jobs EXCEPT ![j] = [st |-> "done", pw |-> pw, sh |-> page_map[pw]]]
  /\ UNCHANGED <<regVars, page_map, sh_root_frame_id, close_listeners, nav_listeners,
                 browser_root, closed>>

\* the await in StagehandPage.init ends
LookupInitDone(j, ok) ==
  /\ jobs[j].st = "init"
  /\ ok \in CallOutcomes(jobs[j].pw)
  /\ IF ok
       THEN /\ page_init_registered(j)
            /\ jobs' = [jobs EXCEPT ![j].st = "attach", ![j].sh = <<jobs[j].pw, j>>]
       ELSE /\ jobs' = [jobs EXCEPT ![j].st = "raised"]
            /\ UNCHANGED <<frame_id_map, page_map, sh_root_frame_id>>
  /\ UNCHANGED <<reg_call, close_listeners, nav_listeners, browser_root, closed>>

\* the await in _attach_frame_navigated_listener ends
LookupAttachDone(j, ok) ==
  /\ jobs[j].st = "attach"
  /\ ok \in CallOutcomes(jobs[j].pw)
  /\ IF ok
       THEN attach_frame_navigated_listener(jobs[j].pw, jobs[j].sh)
       ELSE UNCHANGED <<frame_id_map, sh_root_frame_id, close_listeners>>
  /\ jobs' = [jobs EXCEPT ![j].st = "done"]
  /\ UNCHANGED <<reg_call, page_map, nav_listeners, browser_root, closed>>

\* the browser: the root frame of an open page navigates to a new frame id;
\* Page.frameNavigated is emitted on the page's sessions
FrameNavigated(pw, frame_id) ==
  /\ pw \notin closed
  /\ frame_id \notin {browser_root[q] : q \in PwPages}
  /\ browser_root' = [browser_root EXCEPT ![pw] = frame_id]
  /\ LET st == EmitFrameNavigated(
                 [map |-> frame_id_map, roots |-> sh_root_frame_id, nav |-> nav_listeners],
                 pw, nav_listeners[pw], frame_id)
     IN /\ frame_id_map' = st.map
        /\ sh_root_frame_id' = st.roots
        /\ nav_listeners' = st.nav
  /\ UNCHANGED <<reg_call, page_map, close_listeners, closed, jobs>>

\* the browser: a page closes; Playwright emits "close" to the once-handlers
PageClosed(pw) ==
  /\ pw \notin closed
  /\ closed' = closed \cup {pw}
  /\ frame_id_map' = on_close(frame_id_map, pw)
  /\ close_listeners' = [close_listeners EXCEPT ![pw] = {}]
  /\ UNCHANGED <<reg_call, page_map, sh_root_frame_id, nav_listeners, browser_root, jobs>>

(***************************************************************************)
(* The page-switch lock                                                    *)
(* Stagehand._page_switch_lock is an asyncio.Lock: acquire takes it at     *)
(* once when it is free and nobody waits, else the task queues; release    *)
(* frees it and wakes the first waiter, which takes it when it runs.       *)
(* asyncio.wait_for runs its coroutine as a task of its own before Python  *)
(* 3.12, so the caller resumes some loop iterations after the coroutine    *)
(* ended; every such suspension is a step boundary below.                  *)
(***************************************************************************)
NewPages == {"P", "Q"}
GuardedJobs == {"GP", "GQ"}
DirectJobs == {"DP", "DQ"}
TaskIds == GuardedJobs \cup {"op"}
GOf(pw) == IF pw = "P" THEN "GP" ELSE "GQ"
DOf(pw) == IF pw = "P" THEN "DP" ELSE "DQ"
ProxyNames == {"get_a11y_tree", "goto", "url"}
NavigationNames == {"goto", "reload", "go_back", "go_forward"}
CoroutineNames == {"get_a11y_tree"} \cup NavigationNames
IdleOp == [st |-> "idle", name |-> "none", page |-> NoPage, ran |-> FALSE, err |-> "none",
           cause |-> "none"]

\* the closure variable pw_page of handle_page_event: the last page the loop
\* of StagehandContext.init went over
handle_page_event_pw_page == "A"

Remove(q, t) == SelectSeq(q, LAMBDA x : x # t)
InQueue(q, t) == \E i \in 1..Len(q) : q[i] = t

\* asyncio.Lock.acquire without suspension
lock_free(holder, waiters) == holder = "none" /\ waiters = <<>>

\* LivePageProxy.__getattr__: page = stagehand._stagehand_page
proxy_page(sh) == sh

guard_kept_on_error(holder, j) == holder

\* async with self.stagehand._page_switch_lock: __aexit__ on return, error or cancel
guard_exit(holder, j) == IF holder = j THEN "none" ELSE holder

\* the except clauses of _handle_new_page: asyncio.TimeoutError, then Exception;
\* StagehandDefaultError, raised by StagehandPage.init, derives from Exception
handle_new_page_except(exc) ==
  CASE exc = "TimeoutError" -> "timeout"
    [] exc \in {"StagehandDefaultError", "Exception"} -> "failed"
    [] OTHER -> "raised"

stability_timeout_runs_anyway(o) ==
  [o EXCEPT !.st = "stable", !.err = "none", !.cause = "none"]

\* except asyncio.TimeoutError in _ensure_page_stability:
\* raise RuntimeError from asyncio.TimeoutError("Page stability lock timeout - ...")
stability_timeout(o) ==
  [o EXCEPT !.st = "raised", !.err = "RuntimeError",
            !.cause = "Page stability lock timeout - possible deadlock detected"]

\* StagehandContext._set_active_page and Stagehand._set_active_page
set_active_page(stagehand_page) ==
  /\ active_stagehand_page' = stagehand_page
  /\ st_page' = stagehand_page

SwitchInit ==
  /\ active_stagehand_page = InitPage
  /\ st_page = InitPage
  /\ st_stagehand_page = InitPage
  /\ lock_holder = "none"
  /\ lock_waiters = <<>>
  /\ clock = 0
  /\ deadline = [t \in TaskIds |-> None]
  /\ op = IdleOp
  /\ errors_logged = {}
  /\ events = {}

noRegistryChange == UNCHANGED <<frame_id_map, page_map, sh_root_frame_id, close_listeners>>
envUnchanged == UNCHANGED <<reg_call, nav_listeners, browser_root, closed, st_stagehand_page>>

\* the browser context emits "page" for a new page: handle_page_event creates
\* the task of _handle_new_page(pw_page) and runs _handle_new_playwright_page(page)
\* up to its first suspension
PageEvent(page) ==
  /\ page \in NewPages \ events
  /\ page \notin closed
  /\ events' = events \cup {page}
  /\ LET spawned == [jobs EXCEPT ![GOf(page)] =
                       [st |-> "spawned", pw |-> handle_page_event_pw_page, sh |-> NoPage]]
     IN IF page_map[page] = NoPage
          THEN /\ jobs' = [spawned EXCEPT ![DOf(page)] =
                             [st |-> "init", pw |-> page, sh |-> NoPage]]
               /\ UNCHANGED <<active_stagehand_page, st_page>>
          ELSE /\ set_active_page(page_map[page])
               /\ jobs' = [spawned EXCEPT ![DOf(page)] =
                             [st |-> "attach2", pw |-> page, sh |-> page_map[page]]]
  /\ noRegistryChange
  /\ envUnchanged
  /\ UNCHANGED <<lock_holder, lock_waiters, clock, deadline, op, errors_logged>>

\* _handle_new_page starts: wait_for arms its timer, handle_with_lock takes
\* the lock or queues for it
GuardedStart(j) ==
  /\ jobs[j].st = "spawned"
  /\ deadline' = [deadline EXCEPT ![j] = clock + PageSwitchTimeoutS]
  /\ IF lock_free(lock_holder, lock_waiters)
       THEN /\ lock_holder' = j
            /\ jobs' = start_create(j, jobs[j].pw)
            /\ UNCHANGED lock_waiters
       ELSE /\ lock_waiters' = Append(lock_waiters, j)
            /\ jobs' = [jobs EXCEPT ![j].st = "lockwait"]
            /\ UNCHANGED lock_holder
  /\ noRegistryChange
  /\ envUnchanged
  /\ UNCHANGED <<active_stagehand_page, st_page, clock, op, errors_logged, events>>

\* the queued handler is woken by a release and takes the lock
GuardedAcquire(j) ==
  /\ jobs[j].st = "lockwait"
  /\ lock_holder = "none"
  /\ lock_waiters # <<>> /\ Head(lock_waiters) = j
  /\ lock_holder' = j
  /\ lock_waiters' = Tail(lock_waiters)
  /\ jobs' = start_create(j, jobs[j].pw)
  /\ noRegistryChange
  /\ envUnchanged
  /\ UNCHANGED <<active_stagehand_page, st_page, clock, deadline, op, errors_logged, events>>

\* _create_stagehand_page of the lock-guarded handler: StagehandPage.init ends
GuardedInitDone(j, ok) ==
  /\ j \in GuardedJobs
  /\ jobs[j].st = "init"
  /\ ok \in CallOutcomes(jobs[j].pw)
  /\ IF ok
       THEN /\ page_init_registered(j)
            /\ jobs' = [jobs EXCEPT ![j].st = "attach", ![j].sh = <<jobs[j].pw, j>>]
            /\ UNCHANGED <<lock_holder, deadline, errors_logged>>
       ELSE /\ jobs' = [jobs EXCEPT ![j].st = handle_new_page_except("StagehandDefaultError")]
            /\ lock_holder' = guard_exit(lock_holder, j)
            /\ deadline' = [deadline EXCEPT ![j] = None]
            /\ errors_logged' = errors_logged \cup {j}
            /\ UNCHANGED <<frame_id_map, page_map, sh_root_frame_id>>
  /\ envUnchanged
  /\ UNCHANGED <<close_listeners, active_stagehand_page, st_page, lock_waiters, clock, op,
                 events>>

\* ... its _attach_frame_navigated_listener ends; _set_active_page; the lock
\* is released on leaving the async with block
GuardedAttachDone(j, ok) ==
  /\ j \in GuardedJobs
  /\ jobs[j].st = "attach"
  /\ ok \in CallOutcomes(jobs[j].pw)
  /\ IF ok
       THEN attach_frame_navigated_listener(jobs[j].pw, jobs[j].sh)
       ELSE UNCHANGED <<frame_id_map, sh_root_frame_id, close_listeners>>
  /\ set_active_page(<<jobs[j].pw, j>>)
  /\ lock_holder' = guard_exit(lock_holder, j)
  /\ deadline' = [deadline EXCEPT ![j] = None]
  /\ jobs' = [jobs EXCEPT ![j].st = "done"]
  /\ envUnchanged
  /\ UNCHANGED <<page_map, lock_waiters, clock, op, errors_logged, events>>

\* the 30 s of wait_for are over: handle_with_lock is cancelled where it
\* waits, TimeoutError is caught and logged
GuardedTimeout(j) ==
  /\ j \in GuardedJobs
  /\ jobs[j].st \in {"lockwait", "init", "attach"}
  /\ deadline[j] # None /\ clock >= deadline[j]
  /\ lock_waiters' = Remove(lock_waiters, j)
  /\ lock_holder' = guard_exit(lock_holder, j)
  /\ deadline' = [deadline EXCEPT ![j] = None]
  /\ jobs' = [jobs EXCEPT ![j].st = handle_new_page_except("TimeoutError")]
  /\ errors_logged' = errors_logged \cup {j}
  /\ noRegistryChange
  /\ envUnchanged
  /\ UNCHANGED <<active_stagehand_page, st_page, clock, op, events>>

\* _handle_new_playwright_page: StagehandPage.init of its wrapper ends; an
\* error goes to handle_page_event, which logs it
DirectInitDone(j, ok) ==
  /\ j \in DirectJobs
  /\ jobs[j].st = "init"
  /\ ok \in CallOutcomes(jobs[j].pw)
  /\ IF ok
       THEN /\ page_init_registered(j)
            /\ jobs' = [jobs EXCEPT ![j].st = "attach", ![j].sh = <<jobs[j].pw, j>>]
            /\ UNCHANGED errors_logged
       ELSE /\ jobs' = [jobs EXCEPT ![j].st = "failed"]
            /\ errors_logged' = errors_logged \cup {j}
            /\ UNCHANGED <<frame_id_map, page_map, sh_root_frame_id>>
  /\ envUnchanged
  /\ UNCHANGED <<close_listeners, active_stagehand_page, st_page, lock_holder, lock_waiters,
                 clock, deadline, op, events>>

\* ... the attach inside _create_stagehand_page ends; _set_active_page;
\* _attach_frame_navigated_listener is called once more
DirectAttachDone(j, ok) ==
  /\ j \in DirectJobs
  /\ jobs[j].st = "attach"
  /\ ok \in CallOutcomes(jobs[j].pw)
  /\ IF ok
       THEN attach_frame_navigated_listener(jobs[j].pw, jobs[j].sh)
       ELSE UNCHANGED <<frame_id_map, sh_root_frame_id, close_listeners>>
  /\ set_active_page(<<jobs[j].pw, j>>)
  /\ jobs' = [jobs EXCEPT ![j].st = IF page_map[jobs[j].pw] = NoPage THEN "done"
                                    ELSE "attach2",
                          ![j].sh = page_map[jobs[j].pw]]
  /\ envUnchanged
  /\ UNCHANGED <<page_map, lock_holder, lock_waiters, clock, deadline, op, errors_logged,
                 events>>

\* ... the second attach ends
DirectAttach2Done(j, ok) ==
  /\ j \in DirectJobs
  /\ jobs[j].st = "attach2"
  /\ ok \in CallOutcomes(jobs[j].pw)
  /\ IF ok
       THEN attach_frame_navigated_listener(jobs[j].pw, jobs[j].sh)
       ELSE UNCHANGED <<frame_id_map, sh_root_frame_id, close_listeners>>
  /\ jobs' = [jobs EXCEPT ![j].st = "done"]
  /\ envUnchanged
  /\ UNCHANGED <<page_map, active_stagehand_page, st_page, lock_holder, lock_waiters, clock,
                 deadline, op, errors_logged, events>>

opFrame ==
  /\ noRegistryChange
  /\ envUnchanged
  /\ UNCHANGED <<jobs, active_stagehand_page, st_page, errors_logged, events>>

\* stagehand.page.<name>: LivePageProxy.__getattr__ picks the page; a
\* navigation method is returned as it is and called, another coroutine
\* method is wrapped and its call enters _ensure_page_stability, any other
\* attribute is returned
ProxyGetattr(name) ==
  /\ op.st = "idle"
  /\ LET page == proxy_page(st_stagehand_page)
     IN CASE name \in NavigationNames ->
               /\ op' = [IdleOp EXCEPT !.st = "running", !.name = name, !.page = page,
                                       !.ran = TRUE]
               /\ UNCHANGED deadline
          [] name \in CoroutineNames \ NavigationNames ->
               /\ op' = [IdleOp EXCEPT !.st = "stabilizing", !.name = name, !.page = page]
               /\ deadline' = [deadline EXCEPT !["op"] = clock + StabilityTimeoutS]
          [] OTHER ->
               /\ op' = [IdleOp EXCEPT !.st = "returned", !.name = name, !.page = page]
               /\ UNCHANGED deadline
  /\ opFrame
  /\ UNCHANGED <<lock_holder, lock_waiters, clock>>

\* acquire_lock runs: "async with lock: pass" goes through a free lock
\* without suspension, else the task queues
OpAcquire ==
  /\ op.st = "stabilizing"
  /\ IF lock_free(lock_holder, lock_waiters)
       THEN /\ op' = [op EXCEPT !.st = "stable"]
            /\ deadline' = [deadline EXCEPT !["op"] = None]
            /\ UNCHANGED lock_waiters
       ELSE /\ op' = [op EXCEPT !.st = "lockwait"]
            /\ lock_waiters' = Append(lock_waiters, "op")
            /\ UNCHANGED deadline
  /\ opFrame
  /\ UNCHANGED <<lock_holder, clock>>

\* the queued acquire_lock is woken, takes the lock and releases it
OpWake ==
  /\ op.st = "lockwait"
  /\ lock_holder = "none"
  /\ lock_waiters # <<>> /\ Head(lock_waiters) = "op"
  /\ lock_waiters' = Tail(lock_waiters)
  /\ op' = [op EXCEPT !.st = "stable"]
  /\ deadline' = [deadline EXCEPT !["op"] = None]
  /\ opFrame
  /\ UNCHANGED <<lock_holder, clock>>

\* wrapped resumes after _ensure_page_stability: return await attr(...)
OpRun ==
  /\ op.st = "stable"
  /\ op' = [op EXCEPT !.st = "running", !.ran = TRUE]
  /\ opFrame
  /\ UNCHANGED <<lock_holder, lock_waiters, clock, deadline>>

\* the 30 s of wait_for are over while acquire_lock still waits
OpTimeout ==
  /\ op.st \in {"stabilizing", "lockwait"}
  /\ deadline["op"] # None /\ clock >= deadline["op"]
  /\ lock_waiters' = Remove(lock_waiters, "op")
  /\ op' = stability_timeout(op)
  /\ deadline' = [deadline EXCEPT !["op"] = None]
  /\ opFrame
  /\ UNCHANGED <<lock_holder, clock>>

\* the call through the proxy is over (result or error in the caller's hands)
OpFinish ==
  /\ op.st \in {"running", "returned", "raised"}
  /\ op' = IdleOp
  /\ opFrame
  /\ UNCHANGED <<lock_holder, lock_waiters, clock, deadline>>

\* a task that can run without waiting for the browser, the lock or a timer
Runnable ==
  \/ \E j \in GuardedJobs : jobs[j].st = "spawned"
  \/ op.st \in {"stabilizing", "stable"}
  \/ lock_holder = "none" /\ lock_waiters # <<>>

PendingDeadlines == {deadline[t] : t \in TaskIds} \ {None}

\* the loop sleeps: time passes up to the next wait_for deadline
ClockAdvance ==
  /\ ~Runnable
  /\ clock < MaxClockS
  /\ \A d \in PendingDeadlines : d > clock
  /\ LET target == IF clock + ClockTickS > MaxClockS THEN MaxClockS ELSE clock + ClockTickS
         due == {d \in PendingDeadlines : d < target}
     IN clock' = IF due = {} THEN target ELSE CHOOSE d \in due : \A e \in due : d <= e
  /\ noRegistryChange
  /\ envUnchanged
  /\ UNCHANGED <<jobs, active_stagehand_page, st_page, lock_holder, lock_waiters, deadline,
                 op, errors_logged, events>>

(***************************************************************************)
(* The page state: StagehandPage.get_a11y_tree and the walk over the       *)
(* frames of the page in get_accessibility_tree_with_frames.  A Playwright *)
(* frame is a number: MainFrame for page.main_frame, FrameIds for the      *)
(* iframes.  The text of a frame's outline is not modelled here: an        *)
(* outline is named by the frame it came from, a merged map by the frames  *)
(* whose entries went into it.                                             *)
(***************************************************************************)
MainFrame == 100

\* the frame trees a page can show: every iframe that is present hangs under
\* the main frame or under an iframe that was attached before it
FrameTrees ==
  UNION {{t \in [S -> {MainFrame} \cup S] : \A f \in S : t[f] < f} : S \in SUBSET FrameIds}

NoFrames == [f \in {} |-> MainFrame]

\* combined_tree = '' and the default of result.get("combinedTree", "")
EmptyTree == [base |-> None, subtrees |-> {}]

\* the dict get_a11y_tree has not returned yet
NoResult == [pending |-> TRUE]

\* frame.child_frames, in the order Playwright lists them
child_frames(tree, frame) == {c \in DOMAIN tree : tree[c] = frame}

RECURSIVE SetToSeq(_)
SetToSeq(S) ==
  IF S = {} THEN <<>>
  ELSE LET m == CHOOSE x \in S : \A y \in S : x <= y IN <<m>> \o SetToSeq(S \ {m})

\* what one pass through the try block can do: every awaited call succeeded,
\* get_cdp_frame_id or DOM.getFrameOwner gave None (iframes only), or one of
\* the awaited calls raised
FetchOutcomes(frame) ==
  IF frame = MainFrame THEN {"ok", "failed"} ELSE {"ok", "no_id", "failed"}

\* except Exception as err: logger({...}), for the main frame and for iframes
fetch_failed_main_raises(frame, main) == IF frame = main THEN "raise" ELSE "log"
fetch_failed(frame, main) == "log"

\* snapshots.append({...}): the frame and whether it has backendNodeId and frameId
Snapshot(frame, outcome) == [frame |-> frame, has_id |-> (outcome = "ok" /\ frame # MainFrame)]

SnapFrames(snaps) == {snaps[i].frame : i \in 1..Len(snaps)}

\* id_to_tree: the snapshots that have both backendNodeId and frameId
id_to_tree(snaps) == {snaps[i].frame : i \in {k \in 1..Len(snaps) : snaps[k].has_id}}

\* step 5: root_snap is the snapshot whose frameXpath is '/', the main frame's
combined_tree(snaps) ==
  IF MainFrame \in SnapFrames(snaps)
    THEN [base |-> MainFrame, subtrees |-> id_to_tree(snaps)]
    ELSE IF Len(snaps) > 0 THEN [base |-> snaps[1].frame, subtrees |-> {}]
    ELSE EmptyTree

\* the dict get_accessibility_tree_with_frames returns
with_frames_result(snaps) ==
  [combinedTree |-> combined_tree(snaps),
   combinedXpathMap |-> SnapFrames(snaps),
   combinedUrlMap |-> SnapFrames(snaps),
   discoveredIframes |-> <<>>]

\* dict.get(key, default)
dict_get(d, key, default) == IF key \in DOMAIN d THEN d[key] ELSE default

\* the dict get_a11y_tree builds from it (iframes = True)
get_a11y_tree_result(result) ==
  [combinedTree |-> dict_get(result, "combinedTree", EmptyTree),
   combinedXpathMap |-> dict_get(result, "combinedXpathMap", {}),
   discoveredIframes |-> <<>>]

(***************************************************************************)
(* StagehandPage.get_cdp_client: the cache of protocol sessions.  A target *)
(* is the page or one of its frames, a session object is a number, a call  *)
(* runs in a task and yields at await new_cdp_session(...).                *)
(***************************************************************************)
CdpTargets == {"page", "frame1", "frame2"}
CdpTasks == {"t1", "t2"}
IdleCall == [st |-> "idle", target |-> "none", result |-> None]

\* what new_cdp_session(target) can do
CreateOutcomes(target) ==
  IF target = "page" THEN {"ok", "error"} ELSE {"ok", "no_separate", "error"}

\* if "does not have a separate CDP session" in str(err)
is_same_process_error(outcome) == outcome = "no_separate"

\* cached = self._cdp_clients.get(target); if cached: return cached
cdp_cached(clients, target) == clients[target]

CdpInit ==
  /\ cdp_clients = [t \in CdpTargets |-> None]
  /\ cdp_calls = [c \in CdpTasks |-> IdleCall]
  /\ next_session = 1
  /\ created = [t \in CdpTargets |-> {}]
  /\ handed_out = [t \in CdpTargets |-> {}]

\* the call returns session for target
cdp_return(c, target, session) ==
  /\ cdp_calls' = [cdp_calls EXCEPT ![c] = [st |-> "returned", target |-> target,
                                            result |-> session]]
  /\ handed_out' = [handed_out EXCEPT ![target] = @ \cup {session}]

\* get_cdp_client(target) up to its first await, or to its return on a cache hit
GetCdpClient(c, target) ==
  /\ cdp_calls[c].st \in {"idle", "returned", "raised"}
  /\ next_session <= MaxSessions
  /\ IF cdp_cached(cdp_clients, target) # None
       THEN cdp_return(c, target, cdp_cached(cdp_clients, target))
       ELSE /\ cdp_calls' = [cdp_calls EXCEPT ![c] = [st |-> "creating", target |-> target,
                                                       result |-> None]]
            /\ UNCHANGED handed_out
  /\ UNCHANGED <<cdp_clients, next_session, created>>

\* await new_cdp_session(target) is over: store and return, fall back, or raise
CreateDone(c, outcome) ==
  /\ cdp_calls[c].st = "creating"
  /\ outcome \in CreateOutcomes(cdp_calls[c].target)
  /\ LET target == cdp_calls[c].target
     IN IF outcome = "ok"
          THEN /\ cdp_clients' = [cdp_clients EXCEPT ![target] = next_session]
               /\ created' = [created EXCEPT ![target] = @ \cup {next_session}]
               /\ next_session' = next_session + 1
               /\ cdp_return(c, target, next_session)
          ELSE IF is_same_process_error(outcome)
            THEN \* root_session = await self.get_cdp_client(self._page)
                 IF cdp_cached(cdp_clients, "page") # None
                   THEN /\ cdp_clients' =
                             [cdp_clients EXCEPT ![target] = cdp_cached(cdp_clients, "page")]
                        /\ cdp_return(c, target, cdp_cached(cdp_clients, "page"))
                        /\ UNCHANGED <<next_session, created>>
                   ELSE /\ cdp_calls' = [cdp_calls EXCEPT ![c].st = "fallback"]
                        /\ UNCHANGED <<cdp_clients, next_session, created, handed_out>>
            ELSE /\ cdp_calls' = [cdp_calls EXCEPT ![c].st = "raised"]
                 /\ UNCHANGED <<cdp_clients, next_session, created, handed_out>>

\* the nested get_cdp_client(self._page) of the fallback is over
FallbackDone(c, ok) ==
  /\ cdp_calls[c].st = "fallback"
  /\ LET target == cdp_calls[c].target
     IN IF ok
          THEN /\ cdp_clients' = [cdp_clients EXCEPT !["page"] = next_session,
                                                     ![target] = next_session]
               /\ created' = [created EXCEPT !["page"] = @ \cup {next_session}]
               /\ next_session' = next_session + 1
               /\ cdp_return(c, target, next_session)
          ELSE /\ cdp_calls' = [cdp_calls EXCEPT ![c].st = "raised"]
               /\ UNCHANGED <<cdp_clients, next_session, created, handed_out>>

(***************************************************************************)
(* build_hierarchical_tree and its cleanup pass.  An AX node list is given *)
(* by the parent of every node and by what the node is; a name is the      *)
(* sequence of its characters; a kept node is a record whose children are  *)
(* a sequence of such records.  Python's Optional[node] is a sequence of   *)
(* length 0 or 1.                                                          *)
(***************************************************************************)
AxIds == 1..MaxAxNodes

\* (role, name, tag): tag is tag_name_map[encodedId], "" when the node got no
\* EncodedId (its backend id is missing from the map or not unique in it)
AxKinds ==
  {<<"none", <<>>, "">>,
   <<"generic", <<"A">>, "">>,
   <<"generic", <<>>, "div">>,
   <<"StaticText", <<"A", " ">>, "">>,
   <<"combobox", <<>>, "select">>,
   <<"InlineTextBox", <<>>, "">>}

RootKind == <<"RootWebArea", <<>>, "">>

\* the node lists: node 1 is the root, every other node hangs under an earlier one
AxParents == {f \in [AxIds \ {1} -> AxIds] : \A n \in AxIds \ {1} : f[n] < n}

AxInputs == [parent : AxParents, kind : [AxIds \ {1} -> AxKinds]]

\* (role, name, tag) of node n
ax_kind(input, n) == IF n = 1 THEN RootKind ELSE input.kind[n]

NoAxInput == [parent |-> <<>>, kind |-> <<>>]

StructuralRoles == {"generic", "none"}

\* is_interactive
is_interactive(role) == role \notin {"none", "generic", "InlineTextBox"}

\* str.strip() on the characters of the model
RECURSIVE lstrip(_)
lstrip(str) == IF str # <<>> /\ Head(str) = " " THEN lstrip(Tail(str)) ELSE str

RECURSIVE rstrip(_)
rstrip(str) ==
  IF str # <<>> /\ str[Len(str)] = " " THEN rstrip(SubSeq(str, 1, Len(str) - 1)) ELSE str

strip(str) == lstrip(rstrip(str))

\* normalise_spaces: a run of whitespace becomes one space
RECURSIVE normalise_spaces(_)
normalise_spaces(str) ==
  IF Len(str) < 2 THEN str
  ELSE IF str[1] = " " /\ str[2] = " " THEN normalise_spaces(Tail(str))
  ELSE <<str[1]>> \o normalise_spaces(Tail(str))

\* childIds of a node of the list
ax_child_ids(input, n) == {c \in AxIds \ {1} : input.parent[c] = n}

\* pass 1: keep = name.strip() or childIds or is_interactive
ax_keep(input, n) ==
  \/ strip(ax_kind(input, n)[2]) # <<>>
  \/ ax_child_ids(input, n) # {}
  \/ is_interactive(ax_kind(input, n)[1])

\* passes 1 and 2: the node_map entry of n with its kept children wired in
RECURSIVE ax_wire(_, _)
RECURSIVE ax_wire_all(_, _)
ax_wire(input, n) ==
  [nodeId |-> n, role |-> ax_kind(input, n)[1], name |-> ax_kind(input, n)[2],
   tag |-> ax_kind(input, n)[3],
   children |-> ax_wire_all(input, SetToSeq({c \in ax_child_ids(input, n) : ax_keep(input, c)}))]
ax_wire_all(input, ids) ==
  IF ids = <<>> THEN <<>> ELSE <<ax_wire(input, Head(ids))>> \o ax_wire_all(input, Tail(ids))

\* the StaticText children's names, normalised, trimmed and concatenated
RECURSIVE combined_static_text(_)
combined_static_text(children) ==
  IF children = <<>> THEN <<>>
  ELSE (IF Head(children).role = "StaticText" /\ Head(children).name # <<>>
          THEN strip(normalise_spaces(Head(children).name)) ELSE <<>>)
         \o combined_static_text(Tail(children))

RECURSIVE without_static_text(_)
without_static_text(children) ==
  IF children = <<>> THEN <<>>
  ELSE (IF Head(children).role # "StaticText" THEN <<Head(children)>> ELSE <<>>)
         \o without_static_text(Tail(children))

\* remove_redundant_static_text_children
remove_redundant_static_text_children(parent, children) ==
  IF parent.name = <<>> THEN children
  ELSE IF combined_static_text(children) = strip(normalise_spaces(parent.name))
    THEN without_static_text(children)
    ELSE children

\* step 4: a structural role becomes the tag name, a combobox on a select becomes select
retag(node) ==
  LET n1 == IF node.role \in StructuralRoles /\ node.tag # ""
              THEN [node EXCEPT !.role = node.tag] ELSE node
  IN IF n1.role = "combobox" /\ n1.tag = "select" THEN [n1 EXCEPT !.role = "select"] ELSE n1

\* steps 4 to 6 of clean_structural_nodes
finish_clean(node, cleaned_children) ==
  LET n4 == retag(node)
      pruned == remove_redundant_static_text_children(n4, cleaned_children)
  IN IF pruned = <<>> /\ n4.role \in StructuralRoles THEN <<>>
     ELSE <<[n4 EXCEPT !.children = pruned]>>

\* clean_structural_nodes: <<>> for None, <<node>> for a node
RECURSIVE clean_structural_nodes(_)
RECURSIVE clean_all(_)
clean_structural_nodes(node) ==
  IF node.nodeId < 0 THEN <<>>
  ELSE IF node.children = <<>>
    THEN (IF node.role \in StructuralRoles THEN <<>> ELSE <<node>>)
  ELSE LET cleaned_children == clean_all(node.children)
       IN IF node.role \in StructuralRoles /\ Len(cleaned_children) = 1
            THEN <<cleaned_children[1]>>
          ELSE IF node.role \in StructuralRoles /\ Len(cleaned_children) = 0
            THEN <<>>
          ELSE finish_clean(node, cleaned_children)
clean_all(nodes) ==
  IF nodes = <<>> THEN <<>>
  ELSE clean_structural_nodes(Head(nodes)) \o clean_all(Tail(nodes))

\* build_hierarchical_tree: the roots are the nodes without parentId that were kept
build_hierarchical_tree(input) ==
  clean_all(IF ax_keep(input, 1) THEN <<ax_wire(input, 1)>> ELSE <<>>)

\* all the nodes of a sequence of trees
RECURSIVE tree_nodes(_)
tree_nodes(trees) ==
  IF trees = <<>> THEN {}
  ELSE {Head(trees)} \cup tree_nodes(Head(trees).children) \cup tree_nodes(Tail(trees))

AxInit ==
  /\ ax_nodes = NoAxInput
  /\ ax_pc = "idle"
  /\ ax_tree = <<>>
  /\ ax_recleaned = <<>>

\* the browser answers Accessibility.getFullAXTree
AxLoad(input) ==
  /\ ax_pc = "idle"
  /\ ax_nodes' = input
  /\ ax_pc' = "loaded"
  /\ UNCHANGED <<ax_tree, ax_recleaned>>

\* build_hierarchical_tree(nodes, tag_name_map, ...)
AxBuild ==
  /\ ax_pc = "loaded"
  /\ ax_tree' = build_hierarchical_tree(ax_nodes)
  /\ ax_pc' = "built"
  /\ UNCHANGED <<ax_nodes, ax_recleaned>>

\* clean_structural_nodes on every root of the tree once more
AxReclean ==
  /\ ax_pc = "built"
  /\ ax_recleaned' = clean_all(ax_tree)
  /\ ax_pc' = "recleaned"
  /\ UNCHANGED <<ax_nodes, ax_tree>>

(***************************************************************************)
(* deep_locator.  A path is a sequence of symbols: "/" or a piece of text  *)
(* without a slash; a step is the sequence of the symbols between two      *)
(* slashes.  A selector "xpath=/" + "/".join(buffer) is the sequence of    *)
(* its steps; the context is the sequence of the frame_locator selectors   *)
(* applied to the root so far.                                             *)
(***************************************************************************)
Slash == "/"
StepSyms == {"div", "span[3]", "iframe[1]", "iframe"}
PathSyms == {Slash} \cup StepSyms

\* IFRAME_STEP_RE = ^iframe(\[[^\]]+])?$, on the pieces of text of the model
IframeTexts == {"iframe", "iframe[1]", "iframe[2]"}

SamplePath ==
  <<Slash, "html", Slash, "body", Slash, "iframe[1]", Slash, "div", Slash, "iframe[2]",
    Slash, "span[3]">>

RECURSIVE SeqsUpTo(_, _)
SeqsUpTo(S, n) ==
  IF n = 0 THEN {<<>>}
  ELSE LET shorter == SeqsUpTo(S, n - 1)
       IN shorter \cup {Append(q, x) : q \in {r \in shorter : Len(r) = n - 1}, x \in S}

LocPaths == SeqsUpTo(PathSyms, MaxPathLen) \cup {SamplePath, Tail(SamplePath)}

\* str.split("/"): the pieces between the slashes, empty pieces included
RECURSIVE split_from(_, _, _)
split_from(str, k, piece) ==
  IF k > Len(str) THEN <<piece>>
  ELSE IF str[k] = Slash THEN <<piece>> \o split_from(str, k + 1, <<>>)
  ELSE split_from(str, k + 1, Append(piece, str[k]))

split(str) == split_from(str, 1, <<>>)

\* [s for s in tokens if s]
RECURSIVE non_empty(_)
non_empty(toks) ==
  IF toks = <<>> THEN <<>>
  ELSE (IF Head(toks) # <<>> THEN <<Head(toks)>> ELSE <<>>) \o non_empty(Tail(toks))

\* if not xpath.startswith("/"): xpath = "/" + xpath
with_leading_slash(xpath) ==
  IF xpath # <<>> /\ xpath[1] = Slash THEN xpath ELSE <<Slash>> \o xpath

\* mutant: only an indexed iframe step counts
iframe_step_match_indexed_only(step) == Len(step) = 1 /\ step[1] \in IframeTexts \ {"iframe"}

\* IFRAME_STEP_RE.match(step)
iframe_step_match(step) == Len(step) = 1 /\ step[1] \in IframeTexts

\* the for loop of deep_locator from step k on
RECURSIVE locator_walk(_, _, _, _)
locator_walk(steps, k, c, b) ==
  IF k > Len(steps) THEN [ctx |-> c, final |-> b]
  ELSE LET buffered == Append(b, steps[k])
       IN IF iframe_step_match(steps[k])
            THEN locator_walk(steps, k + 1, Append(c, buffered), <<>>)
            ELSE locator_walk(steps, k + 1, c, buffered)

deep_locator(xpath) ==
  locator_walk(non_empty(split(with_leading_slash(xpath))), 1, <<>>, <<>>)

NoLocator == [ctx |-> <<>>, final |-> <<>>]

LocInit ==
  /\ loc_pc = "idle"
  /\ loc_path = <<>>
  /\ loc_result = NoLocator

\* deep_locator(root, xpath)
DeepLocator(xpath) ==
  /\ loc_pc = "idle"
  /\ loc_path' = xpath
  /\ loc_result' = deep_locator(xpath)
  /\ loc_pc' = "returned"

\* the caller uses the locator; the call's locals are gone
LocatorUsed ==
  /\ loc_pc = "returned"
  /\ loc_pc' = "idle"
  /\ loc_path' = <<>>
  /\ loc_result' = NoLocator

(***************************************************************************)
(* deep_locator_with_shadow.  A locator call is a record: which method     *)
(* was called (frame_locator, locator, or the locator of the marked        *)
(* element inside a shadow root), whether its xpath is relative to an      *)
(* element ("xpath=./") and the steps joined into the selector.            *)
(***************************************************************************)
LocatorCall(kind, rel, steps) == [kind |-> kind, rel |-> rel, steps |-> steps]

\* mutant: the hop forgets the buffered steps instead of flushing them
flush_into_locator_dropping(c, b, scoped) == [ctx |-> c, element_scoped |-> scoped]

\* flush_into_locator
flush_into_locator(c, b, scoped) ==
  IF b = <<>> THEN [ctx |-> c, element_scoped |-> scoped]
  ELSE [ctx |-> Append(c, LocatorCall("locator", scoped, b)), element_scoped |-> TRUE]

\* the inner while loop: the index at which the shadow segment stops
RECURSIVE segment_end(_, _)
segment_end(toks, j) ==
  IF j > Len(toks) \/ toks[j] = <<>> \/ iframe_step_match(toks[j]) THEN j
  ELSE segment_end(toks, j + 1)

\* the statements after the outer while loop
final_locator(c, b, scoped) ==
  IF b = <<>>
    THEN IF scoped THEN c ELSE Append(c, LocatorCall("locator", FALSE, <<>>))
    ELSE Append(c, LocatorCall("locator", scoped, b))

\* the outer while loop from token i on, up to the next await, raise or return
RECURSIVE shadow_walk(_, _, _, _, _)
shadow_walk(toks, i, c, b, scoped) ==
  IF i > Len(toks)
    THEN [pc |-> "returned", i |-> i, j |-> i, ctx |-> c, buffer |-> b,
          element_scoped |-> scoped, seg |-> <<>>, error |-> "none",
          result |-> <<final_locator(c, b, scoped)>>]
  ELSE IF toks[i] = <<>>
    THEN LET flushed == flush_into_locator(c, b, scoped)
             j == segment_end(toks, i + 1)
             segment == SubSeq(toks, i + 1, j - 1)
         IN [pc |-> IF segment = <<>> THEN "raised" ELSE "resolving",
             i |-> i, j |-> j, ctx |-> flushed.ctx, buffer |-> <<>>,
             element_scoped |-> flushed.element_scoped, seg |-> segment,
             error |-> IF segment = <<>> THEN "StagehandShadowSegmentEmptyError" ELSE "none",
             result |-> <<>>]
  ELSE LET buffered == Append(b, toks[i])
       IN IF iframe_step_match(toks[i])
            THEN shadow_walk(toks, i + 1,
                             Append(c, LocatorCall("frame_locator", scoped, buffered)),
                             <<>>, FALSE)
            ELSE shadow_walk(toks, i + 1, c, buffered, scoped)

\* what ctx is when resolve_shadow_segment receives it as host_loc
host_kind(c) ==
  IF c = <<>> THEN "page"
  ELSE IF c[Len(c)].kind = "frame_locator" THEN "frame_locator"
  ELSE "locator"

\* what host_loc.evaluate can tell: a Locator host evaluates the script on its
\* element; a page or a frame locator is no element to evaluate it on
EvaluateOutcomes(c) ==
  IF host_kind(c) = "locator" THEN {"noRoot", "notFound", "found"} ELSE {"no_host_element"}

ShInit ==
  /\ sh_pc = "idle"
  /\ tokens = <<>>
  /\ sh_i = 1
  /\ sh_j = 1
  /\ ctx = <<>>
  /\ buffer = <<>>
  /\ element_scoped = FALSE
  /\ seg = <<>>
  /\ sh_outcome = "none"
  /\ sh_error = "none"
  /\ sh_result = <<>>

walked(w) ==
  /\ sh_pc' = w.pc
  /\ sh_i' = w.i
  /\ sh_j' = w.j
  /\ ctx' = w.ctx
  /\ buffer' = w.buffer
  /\ element_scoped' = w.element_scoped
  /\ seg' = w.seg
  /\ sh_error' = w.error
  /\ sh_result' = w.result

\* deep_locator_with_shadow(root, xpath) up to its first await, raise or return
DeepLocatorWithShadow(xpath) ==
  /\ sh_pc = "idle"
  /\ tokens' = split(with_leading_slash(xpath))
  /\ sh_outcome' = "none"
  /\ walked(shadow_walk(split(with_leading_slash(xpath)), 2, <<>>, <<>>, FALSE))

\* resolve_shadow_segment comes back, and the loop goes on from token j
ShadowResolved(outcome) ==
  /\ sh_pc = "resolving"
  /\ outcome \in EvaluateOutcomes(ctx)
  /\ sh_outcome' = outcome
  /\ UNCHANGED tokens
  /\ IF outcome = "found"
       THEN walked(shadow_walk(tokens, sh_j, Append(ctx, LocatorCall("stagehand", TRUE, seg)),
                               buffer, TRUE))
       ELSE /\ sh_pc' = "raised"
            /\ sh_error' = CASE outcome = "noRoot" -> "StagehandShadowRootMissingError"
                             [] outcome = "notFound" -> "StagehandShadowSegmentNotFoundError"
                             [] OTHER -> "Error"
            /\ UNCHANGED <<sh_i, sh_j, ctx, buffer, element_scoped, seg, sh_result>>

\* the call is over; its locals are gone
ShadowCallOver ==
  /\ sh_pc \in {"returned", "raised"}
  /\ sh_pc' = "idle"
  /\ tokens' = <<>>
  /\ sh_i' = 1
  /\ sh_j' = 1
  /\ ctx' = <<>>
  /\ buffer' = <<>>
  /\ element_scoped' = FALSE
  /\ seg' = <<>>
  /\ sh_outcome' = "none"
  /\ sh_error' = "none"
  /\ sh_result' = <<>>

(***************************************************************************)
(* build_backend_id_maps, step 3: the DFS over the tree of DOM.getDocument *)
(* for the main frame.  Node 1 is the document; every other node hangs     *)
(* under an earlier node, as one of its children or as its                 *)
(* contentDocument.  The frameId of a content document is the number of    *)
(* its node.  A string is the sequence of its pieces.                      *)
(***************************************************************************)
DomIds == 1..MaxDomNodes
NodeNames == {"IFRAME", "OBJECT"}
DocumentName == "#document"
\* children[i], contentDocument with a frameId, contentDocument without one
Links == {"child", "doc_fid", "doc_nofid"}
\* backendNodeId: the node's own number, absent, or the number of node 1 again
Idents == {"own", "absent", "repeated"}

DomParents == {par \in [DomIds \ {1} -> DomIds] : \A n \in DomIds \ {1} : par[n] < n}
DomInputs ==
  [parent : DomParents,
   node : [DomIds \ {1} -> [link : Links, nodeName : NodeNames, ident : Idents]]]

\* a node has one contentDocument at most
one_document_each(d) ==
  \A m, n \in DomIds \ {1} :
    (m # n /\ d.parent[m] = d.parent[n]) => (d.node[m].link = "child" \/ d.node[n].link = "child")

NoDom == [parent |-> <<>>, node |-> <<>>]

\* raw.lower()
lc(raw) ==
  CASE raw = "IFRAME" -> "iframe"
    [] raw = "OBJECT" -> "object"
    [] raw = "HTML" -> "html"
    [] raw = "BODY" -> "body"
    [] raw = "BUTTON" -> "button"
    [] OTHER -> raw

is_document(d, n) == n = 1 \/ d.node[n].link # "child"

\* node.get('nodeName')
nodeName(d, n) == IF is_document(d, n) THEN DocumentName ELSE d.node[n].nodeName

\* node.get('backendNodeId'), 0 when the key is absent
backendNodeId(d, n) ==
  IF n = 1 THEN 1
  ELSE CASE d.node[n].ident = "own" -> n
         [] d.node[n].ident = "repeated" -> 1
         [] OTHER -> 0

\* node.get('children', [])
kids(d, n) == SetToSeq({k \in DOMAIN d.node : d.parent[k] = n /\ d.node[k].link = "child"})

\* node.get('contentDocument'): no node or one
contentDocument(d, n) ==
  SetToSeq({k \in DOMAIN d.node : d.parent[k] = n /\ d.node[k].link # "child"})

\* contentDocument.get('frameId')
frameId(d, n) == IF d.node[n].link = "doc_fid" THEN n ELSE None

StackEntry(n, path, fid) == [node |-> n, path |-> path, fid |-> fid]

ends_with_two_slashes(str) ==
  Len(str) >= 2 /\ str[Len(str)] = Slash /\ str[Len(str) - 1] = Slash

join_step(base, step) ==
  IF ends_with_two_slashes(base) THEN base \o step ELSE base \o <<Slash>> \o step

\* the segment of child k among its siblings: f"{tag}[{idx}]"
child_seg(d, siblings, i) ==
  LET tag == lc(nodeName(d, siblings[i]))
      idx == Cardinality({h \in 1..i : lc(nodeName(d, siblings[h])) = tag})
  IN <<tag, "[">> \o FormatInt(idx) \o <<"]">>

\* the entries of the children, pushed from right to left
pushed_children(d, n, path, fid) ==
  LET siblings == kids(d, n)
      m == Len(siblings)
  IN [h \in 1..m |->
        StackEntry(siblings[m + 1 - h], join_step(path, child_seg(d, siblings, m + 1 - h)), fid)]

\* the entry of the content document of an iframe element
pushed_document(d, n, fid) ==
  LET doc == contentDocument(d, n)
  IN IF lc(nodeName(d, n)) = "iframe" /\ doc # <<>>
       THEN <<StackEntry(doc[1], <<>>,
                         IF frameId(d, doc[1]) # None THEN frameId(d, doc[1]) ELSE fid)>>
       ELSE <<>>

put(map, key, value) ==
  [k \in DOMAIN map \cup {key} |-> IF k = key THEN value ELSE map[k]]

EmptyMap == [k \in {} |-> <<>>]

\* mutant: the seen-set is not consulted
already_seen_never(enc, seen) == FALSE

\* if enc in seen
already_seen(enc, seen) == enc \in seen

\* while stack: ...; popped records the entries taken off the stack
RECURSIVE dfs_walk(_, _, _)
dfs_walk(d, stack, st) ==
  IF stack = <<>> THEN st
  ELSE
    LET entry == stack[Len(stack)]
        rest == SubSeq(stack, 1, Len(stack) - 1)
        backend == backendNodeId(d, entry.node)
    IN IF backend = 0
         THEN dfs_walk(d, rest,
                [st EXCEPT !.popped = Append(@, [entry |-> entry, enc |-> <<>>])])
         ELSE
           LET e == encode_with_frame_id(st.tab, entry.fid, backend)
               taken == Append(st.popped, [entry |-> entry, enc |-> e.ret])
           IN IF already_seen(e.ret, st.seen)
                THEN dfs_walk(d, rest, [st EXCEPT !.tab = e.tab, !.popped = taken])
                ELSE dfs_walk(d,
                       rest \o pushed_document(d, entry.node, entry.fid)
                            \o pushed_children(d, entry.node, entry.path, entry.fid),
                       [tab |-> e.tab,
                        seen |-> st.seen \cup {e.ret},
                        tag_name_map |-> put(st.tag_name_map, e.ret, lc(nodeName(d, entry.node))),
                        xpath_map |-> put(st.xpath_map, e.ret, entry.path),
                        popped |-> taken])

NoWalk ==
  [tab |-> InitialOrdinals, seen |-> {}, tag_name_map |-> EmptyMap, xpath_map |-> EmptyMap,
   popped |-> <<>>]

\* stack = [StackEntry(start_node, '', root_fid)] with root_fid None, on a page
\* whose table of ordinals is still the initial one
dfs_maps(d) == dfs_walk(d, <<StackEntry(1, <<>>, None)>>, NoWalk)

DomInit ==
  /\ dom_pc = "idle"
  /\ dom = NoDom
  /\ dom_walk = NoWalk

\* build_backend_id_maps(experimental=False, sp) on the tree d
BuildBackendIdMaps(d) ==
  /\ dom_pc = "idle"
  /\ one_document_each(d)
  /\ dom' = d
  /\ dom_walk' = dfs_maps(d)
  /\ dom_pc' = "returned"

\* the caller has taken the maps; the call's locals are gone
DomMapsTaken ==
  /\ dom_pc = "returned"
  /\ dom_pc' = "idle"
  /\ dom' = NoDom
  /\ dom_walk' = NoWalk

(***************************************************************************)
(* The text of get_accessibility_tree_with_frames.  Every frame of the     *)
(* page shows a document html > body; the body of a frame without child    *)
(* frames holds one button named "Submit", the body of any other frame     *)
(* holds the iframe elements of its child frames.  The nodes of a frame    *)
(* are numbered from NodesPerFrame * (its index) on, a node's backend id   *)
(* is its number and the CDP id of a frame is the number of its document.  *)
(* An outline is the sequence of its lines, a line the sequence of its     *)
(* pieces; a snapshot is fetched on a page whose ordinals were reset, and  *)
(* a fetch that fails does so before its DOM walk.                         *)
(***************************************************************************)
NodesPerFrame == 10

frame_index(f) == f - MainFrame
doc_node(f) == NodesPerFrame * frame_index(f) + 1
html_node(f) == doc_node(f) + 1
body_node(f) == doc_node(f) + 2
button_node(f) == doc_node(f) + 3
iframe_node(f, c) == doc_node(f) + 3 + frame_index(c)

node_frame(n) == MainFrame + ((n - 1) \div NodesPerFrame)
node_slot(n) == (n - 1) % NodesPerFrame

page_frames(tree) == {MainFrame} \cup DOMAIN tree

page_nodes(tree) ==
  UNION {{doc_node(f), html_node(f), body_node(f)}
           \cup (IF child_frames(tree, f) = {} THEN {button_node(f)} ELSE {})
           \cup {iframe_node(f, c) : c \in child_frames(tree, f)} : f \in page_frames(tree)}
    \ {1}

\* what DOM.getDocument(depth = -1, pierce = True) returns for the page
page_dom(tree) ==
  [parent |->
     [n \in page_nodes(tree) |->
        CASE node_slot(n) = 0 -> iframe_node(tree[node_frame(n)], node_frame(n))
          [] node_slot(n) = 1 -> doc_node(node_frame(n))
          [] node_slot(n) = 2 -> html_node(node_frame(n))
          [] OTHER -> body_node(node_frame(n))],
   node |->
     [n \in page_nodes(tree) |->
        [link |-> IF node_slot(n) = 0 THEN "doc_fid" ELSE "child",
         nodeName |-> CASE node_slot(n) = 0 -> DocumentName
                        [] node_slot(n) = 1 -> "HTML"
                        [] node_slot(n) = 2 -> "BODY"
                        [] node_slot(n) = 3 -> "BUTTON"
                        [] OTHER -> "IFRAME",
         ident |-> "own"]]]

\* get_cdp_frame_id
get_cdp_frame_id(f) == IF f = MainFrame THEN None ELSE doc_node(f)

\* build_backend_id_maps(experimental, sp, target_frame): the walk starts at
\* the document of the frame, under the frame's CDP id
frame_maps(d, f, tab) ==
  dfs_walk(d, <<StackEntry(doc_node(f), <<>>, get_cdp_frame_id(f))>>, [NoWalk EXCEPT !.tab = tab])

\* str.split(sep)
RECURSIVE split_on_from(_, _, _, _)
split_on_from(str, sep, k, piece) ==
  IF k > Len(str) THEN <<piece>>
  ELSE IF str[k] = sep THEN <<piece>> \o split_on_from(str, sep, k + 1, <<>>)
  ELSE split_on_from(str, sep, k + 1, Append(piece, str[k]))

split_on(str, sep) == split_on_from(str, sep, 1, <<>>)

Digits == {"0", "1", "2", "3", "4", "5", "6", "7", "8", "9"}

DigitValue(c) ==
  CASE c = "0" -> 0 [] c = "1" -> 1 [] c = "2" -> 2 [] c = "3" -> 3 [] c = "4" -> 4
    [] c = "5" -> 5 [] c = "6" -> 6 [] c = "7" -> 7 [] c = "8" -> 8 [] c = "9" -> 9

\* ^\d+$
is_digits(str) == str # <<>> /\ \A k \in 1..Len(str) : str[k] \in Digits

\* int(str) for a string of digits
RECURSIVE parse_int(_)
parse_int(str) ==
  IF Len(str) = 1 THEN DigitValue(str[1])
  ELSE 10 * parse_int(SubSeq(str, 1, Len(str) - 1)) + DigitValue(str[Len(str)])

\* parts = enc.split('-'); len(parts) == 2 and int(parts[1]) does not raise
has_backend_part(enc) ==
  LET parts == split_on(enc, "-") IN Len(parts) = 2 /\ is_digits(parts[2])

backend_part(enc) == parse_int(split_on(enc, "-")[2])

\* build_hierarchical_tree, pass 1: the EncodedId of an AX node is the only
\* key of tagNameMap with its backend id; the label of its line is that or,
\* without it, its AX nodeId (here the number of the node)
id_label(tag_name_map, backend) ==
  LET matches == {enc \in DOMAIN tag_name_map :
                    has_backend_part(enc) /\ backend_part(enc) = backend}
  IN IF Cardinality(matches) = 1 THEN CHOOSE enc \in matches : TRUE ELSE FormatInt(backend)

Indent == "  "

RECURSIVE indent_of(_)
indent_of(level) == IF level = 0 THEN <<>> ELSE <<Indent>> \o indent_of(level - 1)

\* format_simplified_tree: f"{indent}[{id_label}] {role}{name_part}"
outline_line(level, label, role, name) ==
  indent_of(level) \o <<"[">> \o label \o <<"]", " ", role>>
    \o (IF name # "" THEN <<": ", name>> ELSE <<>>)

\* res['simplified'].rstrip() of a frame: its root, then its button or the
\* iframe elements of its child frames
frame_outline(d, tree, f, maps) ==
  LET label(n) == id_label(maps.tag_name_map, backendNodeId(d, n))
      children == SetToSeq(child_frames(tree, f))
  IN <<outline_line(0, label(doc_node(f)), "RootWebArea", "")>>
       \o (IF children = <<>>
             THEN <<outline_line(1, label(button_node(f)), "button", "Submit")>>
             ELSE [i \in 1..Len(children) |->
                     outline_line(1, label(iframe_node(f, children[i])), "Iframe", "")])

\* get_frame_root_xpath: '/' + the steps tag[pos] from the top element down
\* to the iframe element
RECURSIVE element_path(_, _)
element_path(d, n) ==
  LET pos == 1 + Cardinality({k \in DOMAIN d.node :
                                /\ d.parent[k] = d.parent[n]
                                /\ d.node[k].link = "child"
                                /\ k < n
                                /\ nodeName(d, k) = nodeName(d, n)})
      step == <<Slash, lc(nodeName(d, n)), "[">> \o FormatInt(pos) \o <<"]">>
  IN IF is_document(d, d.parent[n]) THEN step ELSE element_path(d, d.parent[n]) \o step

frame_xpath(d, tree, f) ==
  IF f = MainFrame THEN <<Slash>> ELSE element_path(d, iframe_node(tree[f], f))

\* the dicts appended to snapshots, in fetch order, and the ordinals after
\* the walks
RECURSIVE text_snapshots(_, _, _, _, _)
text_snapshots(d, tree, snaps, k, tab) ==
  IF k > Len(snaps) THEN [snaps |-> <<>>, tab |-> tab]
  ELSE LET f == snaps[k].frame
           maps == frame_maps(d, f, tab)
           later == text_snapshots(d, tree, snaps, k + 1, maps.tab)
       IN [snaps |->
             <<[frame |-> f,
                tree |-> frame_outline(d, tree, f, maps),
                xpathMap |-> maps.xpath_map,
                frameXpath |-> frame_xpath(d, tree, f),
                backendNodeId |-> IF snaps[k].has_id THEN backendNodeId(d, iframe_node(tree[f], f))
                                  ELSE None,
                parentFrame |-> IF f = MainFrame THEN None ELSE tree[f],
                frameId |-> get_cdp_frame_id(f)]>> \o later.snaps,
           tab |-> later.tab]

\* str.rstrip('/') and str.lstrip('/')
RECURSIVE rstrip_slash(_)
rstrip_slash(str) ==
  IF str # <<>> /\ str[Len(str)] = Slash THEN rstrip_slash(SubSeq(str, 1, Len(str) - 1)) ELSE str

RECURSIVE lstrip_slash(_)
lstrip_slash(str) == IF str # <<>> /\ Head(str) = Slash THEN lstrip_slash(Tail(str)) ELSE str

\* seg[s['frame']] = s['frameXpath']
seg_of(tsnaps) ==
  [f \in {tsnaps[k].frame : k \in 1..Len(tsnaps)} |->
     tsnaps[CHOOSE k \in 1..Len(tsnaps) :
              tsnaps[k].frame = f /\ \A h \in (k + 1)..Len(tsnaps) : tsnaps[h].frame # f].frameXpath]

RECURSIVE full_prefix(_, _, _)
full_prefix(tree, segs, f) ==
  IF f = None \/ f = MainFrame THEN <<>>
  ELSE LET above == full_prefix(tree, segs, tree[f])
           hop == IF f \in DOMAIN segs THEN segs[f] ELSE <<>>
       IN IF hop = <<Slash>> THEN above
          ELSE IF above # <<>> THEN rstrip_slash(above) \o <<Slash>> \o lstrip_slash(hop)
          ELSE hop

\* the value written to combined_xpath_map[enc]
merged_path(prefix, local) ==
  IF local = <<>> THEN (IF prefix # <<>> THEN prefix ELSE <<Slash>>)
  ELSE IF prefix # <<>> THEN rstrip_slash(prefix) \o <<Slash>> \o lstrip_slash(local)
  ELSE local

\* step 3: for snap in snapshots: ... combined_xpath_map[enc] = ...
RECURSIVE combined_xpath_map(_, _, _, _)
combined_xpath_map(tree, tsnaps, k, acc) ==
  IF k > Len(tsnaps) THEN acc
  ELSE LET snap == tsnaps[k]
           prefix == IF snap.frameXpath = <<Slash>> THEN <<>>
                     ELSE full_prefix(tree, seg_of(tsnaps), snap.parentFrame) \o snap.frameXpath
       IN combined_xpath_map(tree, tsnaps, k + 1,
            [enc \in DOMAIN acc \cup DOMAIN snap.xpathMap |->
               IF enc \in DOMAIN snap.xpathMap THEN merged_path(prefix, snap.xpathMap[enc])
               ELSE acc[enc]])

\* step 4: EncodedId -> subtree, for the snapshots with backendNodeId and frameId
RECURSIVE text_id_to_tree(_, _, _, _)
text_id_to_tree(tsnaps, k, tab, acc) ==
  IF k > Len(tsnaps) THEN acc
  ELSE LET snap == tsnaps[k]
       IN IF snap.backendNodeId # None /\ snap.frameId # None
            THEN LET e == encode_with_frame_id(tab, snap.frameId, snap.backendNodeId)
                 IN text_id_to_tree(tsnaps, k + 1, e.tab, put(acc, e.ret, snap.tree))
            ELSE text_id_to_tree(tsnaps, k + 1, tab, acc)

Whitespace == {Indent, " "}

\* re.match(r'^\s*', line).group(0)
RECURSIVE leading_space(_)
leading_space(line) ==
  IF line # <<>> /\ Head(line) \in Whitespace THEN <<Head(line)>> \o leading_space(Tail(line))
  ELSE <<>>

\* re.match(r'^\s*\[([^\]]+)\]', raw): the label, empty when there is no match
bracket_label(raw) ==
  LET p == Len(leading_space(raw)) + 1
      closing == {q \in (p + 2)..Len(raw) : raw[q] = "]"}
  IN IF p <= Len(raw) /\ raw[p] = "[" /\ closing # {}
       THEN LET q == CHOOSE c \in closing : \A c2 \in closing : c <= c2
            IN SubSeq(raw, p + 1, q - 1)
       ELSE <<>>

\* ID_PATTERN is the str r"^\d+-\d+$" of browser_types/context.py, and a str
\* has no attribute 'match'
ID_PATTERN_has_match == FALSE

\* ^\d+-\d+$
matches_id_pattern(label) ==
  LET parts == split_on(label, "-")
  IN Len(parts) = 2 /\ is_digits(parts[1]) /\ is_digits(parts[2])

\* re.match(ID_PATTERN, label) if hasattr(ID_PATTERN, 'match') else None
dash_match(label) == ID_PATTERN_has_match /\ matches_id_pattern(label)

\* unique_by_backend: the only key with this backend id, empty otherwise
unique_by_backend(idmap, backend_id) ==
  LET hits == {enc \in DOMAIN idmap : has_backend_part(enc) /\ backend_part(enc) = backend_id}
  IN IF Cardinality(hits) = 1 THEN CHOOSE enc \in hits : TRUE ELSE <<>>

\* the EncodedId whose subtree goes under a line with this label, empty when
\* there is none
subtree_for(idmap, label) ==
  IF label = <<>> THEN <<>>
  ELSE IF label \in DOMAIN idmap THEN label
  ELSE IF dash_match(label) THEN unique_by_backend(idmap, backend_part(label))
  ELSE IF is_digits(label) THEN unique_by_backend(idmap, parse_int(label))
  ELSE <<>>

StackFrame(lines, idx, indent) == [lines |-> lines, idx |-> idx, indent |-> indent]

\* mutant: the visited set is not consulted
already_visited_never(enc, visited) == FALSE

\* enc in visited
already_visited(enc, visited) == enc \in visited

\* one iteration of "while stack:" on the locals stack, out and visited
inject_iteration(idmap, st) ==
  LET top == st.stack[Len(st.stack)]
      below == SubSeq(st.stack, 1, Len(st.stack) - 1)
  IN IF top.idx > Len(top.lines) THEN [st EXCEPT !.stack = below]
     ELSE
       LET raw == top.lines[top.idx]
           line == top.indent \o raw
           advanced == Append(below, StackFrame(top.lines, top.idx + 1, top.indent))
           enc == subtree_for(idmap, bracket_label(raw))
       IN IF enc = <<>> \/ idmap[enc] = <<>> \/ already_visited(enc, st.visited)
            THEN [stack |-> advanced, out |-> Append(st.out, line), visited |-> st.visited]
            ELSE [stack |->
                    Append(advanced,
                           StackFrame(idmap[enc], 1, leading_space(line) \o <<Indent>>)),
                  out |-> Append(st.out, line),
                  visited |-> st.visited \cup {enc}]

\* the injection walk of inject_subtrees
RECURSIVE inject_walk(_, _, _, _)
inject_walk(idmap, stack, out, visited) ==
  IF stack = <<>> THEN out
  ELSE LET after == inject_iteration(idmap, [stack |-> stack, out |-> out, visited |-> visited])
       IN inject_walk(idmap, after.stack, after.out, after.visited)

inject_subtrees(tree, idmap) == inject_walk(idmap, <<StackFrame(tree, 1, <<>>)>>, <<>>, {})

(***************************************************************************)
(* inject_subtrees on its own, one iteration of its loop per step.  The    *)
(* outlines given to it are a root line alone, an anchor line alone, or a  *)
(* root line with one anchor line under it; the keys of id_to_tree are     *)
(* EncodedIds.                                                             *)
(***************************************************************************)
\* largest number of keys of id_to_tree
MaxKeys == 2
\* the loop is given up after this many iterations
MaxInjectSteps == 24

InjectLabels ==
  {<<"0", "-", "5">>, <<"1", "-", "5">>, <<"2", "-", "5">>, <<"5">>, <<"7">>}
KeyPool == {<<"1", "-", "5">>, <<"2", "-", "5">>, <<"1", "-", "7">>}
RootLabel == <<"0", "-", "1">>
RootLine == outline_line(0, RootLabel, "RootWebArea", "")

Outlines ==
  {<<RootLine>>}
    \cup {<<outline_line(0, l, "Iframe", "")>> : l \in InjectLabels}
    \cup {<<RootLine, outline_line(1, l, "Iframe", "")>> : l \in InjectLabels}

IdMaps ==
  UNION {[K -> Outlines] : K \in {S \in SUBSET KeyPool : Cardinality(S) <= MaxKeys}}

NoWalkYet == [stack |-> <<>>, out |-> <<>>, visited |-> {}]

InjectInit ==
  /\ inj_pc = "idle"
  /\ inj_tree = <<>>
  /\ inj_map = EmptyMap
  /\ inj_walk = NoWalkYet
  /\ inj_log = <<>>
  /\ inj_steps = 0

\* stack = [StackFrame(tree.split('\n'), 0, '')]; out = []; visited = set()
InjectCall(tree, idmap) ==
  /\ inj_pc = "idle"
  /\ inj_pc' = "walking"
  /\ inj_tree' = tree
  /\ inj_map' = idmap
  /\ inj_walk' = [stack |-> <<StackFrame(tree, 1, <<>>)>>, out |-> <<>>, visited |-> {}]
  /\ inj_log' = <<>>
  /\ inj_steps' = 0

\* one iteration of the while loop
InjectStep ==
  /\ inj_pc = "walking"
  /\ inj_walk.stack # <<>>
  /\ inj_steps < MaxInjectSteps
  /\ inj_walk' = inject_iteration(inj_map, inj_walk)
  /\ inj_steps' = inj_steps + 1
  /\ inj_log' = IF Len(inj_walk'.stack) > Len(inj_walk.stack)
                  THEN LET top == inj_walk.stack[Len(inj_walk.stack)]
                       IN Append(inj_log,
                                 [enc |-> subtree_for(inj_map, bracket_label(top.lines[top.idx])),
                                  at |-> Len(inj_walk'.out)])
                  ELSE inj_log
  /\ UNCHANGED <<inj_pc, inj_tree, inj_map>>

\* the stack is empty: return '\n'.join(out)
InjectReturn ==
  /\ inj_pc = "walking"
  /\ inj_walk.stack = <<>>
  /\ inj_pc' = "returned"
  /\ UNCHANGED <<inj_tree, inj_map, inj_walk, inj_log, inj_steps>>

\* the caller has taken the outline
InjectOver ==
  /\ inj_pc = "returned"
  /\ inj_pc' = "idle"
  /\ inj_tree' = <<>>
  /\ inj_map' = EmptyMap
  /\ inj_walk' = NoWalkYet
  /\ inj_log' = <<>>
  /\ inj_steps' = 0

\* steps 3 to 5 on the text of the snapshots
text_result(tree, snaps) ==
  LET fetched == text_snapshots(page_dom(tree), tree, snaps, 1, InitialOrdinals)
      tsnaps == fetched.snaps
      roots == {k \in 1..Len(tsnaps) : tsnaps[k].frameXpath = <<Slash>>}
  IN [combinedTree |->
        IF roots # {}
          THEN inject_subtrees(tsnaps[CHOOSE k \in roots : \A h \in roots : k <= h].tree,
                               text_id_to_tree(tsnaps, 1, fetched.tab, EmptyMap))
          ELSE IF tsnaps # <<>> THEN tsnaps[1].tree
          ELSE <<>>,
      combinedXpathMap |-> combined_xpath_map(tree, tsnaps, 1, EmptyMap),
      ordinals |-> fetched.tab]

NoText == [combinedTree |-> <<>>, combinedXpathMap |-> EmptyMap, ordinals |-> InitialOrdinals]

A11yInit ==
  /\ a11y_pc = "idle"
  /\ parent_frame = NoFrames
  /\ frame_stack = <<>>
  /\ snapshots = <<>>
  /\ a11y_log = {}
  /\ overlay_warning = FALSE
  /\ a11y_result = NoResult
  /\ a11y_text = NoText

\* get_a11y_tree up to the start of the walk: the DOM has settled,
\* clear_overlays ran (a failure is printed and ignored), frame_stack = [main]
A11yStart(tree, overlays_ok) ==
  /\ a11y_pc \in {"idle", "returned"}
  /\ a11y_pc' = "walking"
  /\ parent_frame' = tree
  /\ frame_stack' = <<MainFrame>>
  /\ snapshots' = <<>>
  /\ a11y_log' = {}
  /\ overlay_warning' = ~overlays_ok
  /\ a11y_result' = NoResult
  /\ a11y_text' = NoText

\* one iteration of "while frame_stack": pop, push the children, fetch
FetchFrame(outcome) ==
  /\ a11y_pc = "walking"
  /\ frame_stack # <<>>
  /\ LET frame == frame_stack[Len(frame_stack)]
         rest == SubSeq(frame_stack, 1, Len(frame_stack) - 1)
     IN /\ outcome \in FetchOutcomes(frame)
        /\ frame_stack' = rest \o SetToSeq(child_frames(parent_frame, frame))
        /\ IF outcome = "failed"
             THEN /\ snapshots' = snapshots
                  /\ IF fetch_failed(frame, MainFrame) = "raise"
                       THEN a11y_pc' = "raised" /\ a11y_log' = a11y_log
                       ELSE a11y_pc' = a11y_pc /\ a11y_log' = a11y_log \cup {frame}
             ELSE /\ snapshots' = Append(snapshots, Snapshot(frame, outcome))
                  /\ UNCHANGED <<a11y_pc, a11y_log>>
  /\ UNCHANGED <<parent_frame, overlay_warning, a11y_result, a11y_text>>

\* steps 3 to 5 and the return of get_a11y_tree
A11yMerge ==
  /\ a11y_pc = "walking"
  /\ frame_stack = <<>>
  /\ a11y_pc' = "returned"
  /\ a11y_result' = get_a11y_tree_result(with_frames_result(snapshots))
  /\ a11y_text' = text_result(parent_frame, snapshots)
  /\ UNCHANGED <<parent_frame, frame_stack, snapshots, a11y_log, overlay_warning>>

(***************************************************************************)
(* The plan / execute / conditional workflow of browser_flow (SHGraph).    *)
(* One step is one node of the graph, with the reducers of SHState applied *)
(* to the dict it returns and the edge that follows it.  The language      *)
(* model and the tools answer anything.                                    *)
(***************************************************************************)
\* largest max_steps given to BrowserFlow.run
MaxStepsArg == 3
\* state.max_steps or 10
DefaultMaxSteps == 10

\* next_action: None, "", "done", the name of a registered tool, another name
NoAction == "None"
ActionNames == {"", "done", "act", "unknown_tool"}

\* create_initial_state
initial_state(max_steps) ==
  [done |-> FALSE, step_count |-> 0, max_steps |-> max_steps, next_action |-> NoAction,
   error |-> FALSE]

\* use_new_or_keep_old on next_action: y if y is not None else x
use_new_or_keep_old(x, y) == IF y # NoAction THEN y ELSE x

\* state.next_action or "done"
action_or_done(next_action) == IF next_action \in {NoAction, ""} THEN "done" ELSE next_action

\* state.max_steps or 10
max_steps_or_default(max_steps) == IF max_steps = 0 THEN DefaultMaxSteps ELSE max_steps

PlanAnswers ==
  {[kind |-> "error", next_action |-> NoAction]}
    \cup {[kind |-> "plan", next_action |-> a] : a \in ActionNames \cup {NoAction}}

ConditionalAnswers ==
  {[kind |-> "error", done |-> TRUE, next_action |-> NoAction]}
    \cup {[kind |-> "judged", done |-> d, next_action |-> a] : d \in BOOLEAN, a \in ActionNames}

\* what tool.ainvoke does: a dict comes back, it raises, or None comes back
ToolOutcomes == {"dict", "raises", "none"}

\* should_continue
should_continue(state) == IF state.done THEN "COUNT" ELSE "EXECUTOR"

FlowInit ==
  /\ flow_pc = "idle"
  /\ flow_state = initial_state(0)
  /\ cond_evals = 0

\* BrowserFlow.run: create_initial_state, graph.ainvoke; START -> PLAN_NODE
FlowRun(max_steps) ==
  /\ flow_pc = "idle"
  /\ flow_pc' = "PLAN"
  /\ flow_state' = initial_state(max_steps)
  /\ cond_evals' = 0

\* PlanNode.execute, then the edge to EXECUTOR_NODE
PlanNode(answer) ==
  /\ flow_pc = "PLAN"
  /\ flow_state' =
       IF answer.kind = "error"
         THEN [flow_state EXCEPT !.done = TRUE, !.error = TRUE, !.next_action = "done"]
         ELSE [flow_state EXCEPT !.done = FALSE,
                 !.next_action = use_new_or_keep_old(flow_state.next_action, answer.next_action)]
  /\ flow_pc' = "EXECUTOR"
  /\ UNCHANGED cond_evals

\* ExecutorNode.execute, then the edge to CONDITIONAL_NODE; a tool that
\* returns None makes exe_result.get raise out of the graph
ExecutorNode(outcome) ==
  /\ flow_pc = "EXECUTOR"
  /\ LET action == action_or_done(flow_state.next_action)
     IN IF flow_state.done \/ action = "done"
          THEN /\ flow_state' = [flow_state EXCEPT !.done = TRUE]
               /\ flow_pc' = "CONDITIONAL"
          ELSE IF action = "unknown_tool"
            THEN /\ flow_state' = [flow_state EXCEPT !.done = TRUE, !.error = TRUE]
                 /\ flow_pc' = "CONDITIONAL"
          ELSE IF outcome = "none"
            THEN /\ flow_pc' = "RAISED"
                 /\ UNCHANGED flow_state
          ELSE /\ flow_pc' = "CONDITIONAL"
               /\ UNCHANGED flow_state
  /\ UNCHANGED cond_evals

\* ConditionalNode.execute, then should_continue
ConditionalNode(answer) ==
  /\ flow_pc = "CONDITIONAL"
  /\ cond_evals' = cond_evals + 1
  /\ LET step_count == flow_state.step_count
         max_steps == max_steps_or_default(flow_state.max_steps)
     IN flow_state' =
          IF step_count >= max_steps
            THEN [flow_state EXCEPT !.done = TRUE, !.error = TRUE]
          ELSE IF answer.kind = "error"
            THEN [flow_state EXCEPT !.done = TRUE, !.error = TRUE, !.step_count = step_count + 1]
          ELSE [flow_state EXCEPT !.done = answer.done, !.next_action = answer.next_action,
                                  !.step_count = step_count + 1]
  /\ flow_pc' = should_continue(flow_state')

\* CounterNode.execute, then the edge to END
CounterNode ==
  /\ flow_pc = "COUNT"
  /\ flow_pc' = "END"
  /\ UNCHANGED <<flow_state, cond_evals>>

\* ainvoke has returned or raised
FlowOver ==
  /\ flow_pc \in {"END", "RAISED"}
  /\ flow_pc' = "idle"
  /\ flow_state' = initial_state(0)
  /\ cond_evals' = 0

UtilInit == CdpInit /\ AxInit /\ LocInit /\ ShInit /\ DomInit /\ InjectInit /\ FlowInit

SessionInit == RegInit /\ CtxInit /\ SwitchInit /\ A11yInit /\ UtilInit

\* no handler has run since the last step of a task or a timer
NoEvent == [handler |-> "none", arg |-> "none", hit |-> FALSE]

ObsInit ==
  /\ sweptAt = None
  /\ finished = {}
  /\ last_event = NoEvent

Init == SettleInit /\ OrdInit /\ ObsInit /\ SessionInit

Next ==
  \/ \E arg \in TimeoutArgs : StartWait(arg) /\ UNCHANGED <<ordVars, obsVars, sessionVars>>
  \/ \E rid \in ReqIds, kind \in RequestKinds :
       on_request(rid, kind[1], kind[2]) /\ UNCHANGED <<ordVars, obsVars, sessionVars>>
  \/ \E rid \in ReqIds : on_finish(rid) /\ UNCHANGED <<ordVars, obsVars, sessionVars>>
  \/ \E rid \in ReqIds : on_failed(rid) /\ UNCHANGED <<ordVars, obsVars, sessionVars>>
  \/ \E rid \in ReqIds : on_cached(rid) /\ UNCHANGED <<ordVars, obsVars, sessionVars>>
  \/ \E rid \in ReqIds, isDataUrl \in BOOLEAN :
       on_data_url(rid, isDataUrl) /\ UNCHANGED <<ordVars, obsVars, sessionVars>>
  \/ \E fid \in DocFrames : on_frame_stop(fid) /\ UNCHANGED <<ordVars, obsVars, sessionVars>>
  \/ quiet_fire /\ UNCHANGED <<ordVars, obsVars, sessionVars>>
  \/ sweep_stalled_requests /\ UNCHANGED <<ordVars, obsVars, sessionVars>>
  \/ timeout_guard /\ UNCHANGED <<ordVars, obsVars, sessionVars>>
  \/ wake_waiter /\ UNCHANGED <<ordVars, obsVars, sessionVars>>
  \/ cancel_caller /\ UNCHANGED <<ordVars, obsVars, sessionVars>>
  \/ finally_timeout /\ UNCHANGED <<ordVars, obsVars, sessionVars>>
  \/ advance /\ UNCHANGED <<ordVars, obsVars, sessionVars>>

Spec == Init /\ [][Next]_vars

OrdNext ==
  \/ \E root_id \in FrameIds : PageInit(root_id) /\ UNCHANGED <<settleVars, obsVars, sessionVars>>
  \/ \E fid \in FrameIds \cup {None} : OrdinalCall(fid) /\ UNCHANGED <<settleVars, obsVars, sessionVars>>
  \/ \E fid \in FrameIds \cup {None}, b \in BackendIds :
       EncodeCall(fid, b) /\ UNCHANGED <<settleVars, obsVars, sessionVars>>
  \/ ResetCall /\ UNCHANGED <<settleVars, obsVars, sessionVars>>

OrdSpec == Init /\ [][OrdNext]_vars

(***************************************************************************)
(* The scripted event stream: three requests start, two of them finish in  *)
(* the instant they start, one never finishes; nothing starts once the     *)
(* wait is resolved or the stalled request has been swept.                 *)
(***************************************************************************)
TrackedKinds == {k \in RequestKinds : k[1] \notin {"WebSocket", "EventSource"}}
StreamIds == 1..3

StreamRequest(rid, kind) ==
  /\ ~done_event
  /\ sweptAt = None
  /\ rid \notin inflight
  /\ on_request(rid, kind[1], kind[2])
  /\ UNCHANGED obsVars

StreamFinish(rid) ==
  /\ rid \in inflight
  /\ meta[rid] = now
  /\ Cardinality(finished) < 2
  /\ on_finish(rid)
  /\ finished' = finished \cup {rid}
  /\ UNCHANGED <<sweptAt, last_event>>

StreamSweep ==
  /\ sweep_stalled_requests
  /\ sweptAt' = IF inflight' # inflight THEN now ELSE sweptAt
  /\ UNCHANGED <<finished, last_event>>

StreamAdvance ==
  /\ nStarted - Cardinality(finished) <= 1
  /\ advance
  /\ UNCHANGED obsVars

StreamNext ==
  \/ \E arg \in TimeoutArgs : StartWait(arg) /\ UNCHANGED <<ordVars, obsVars, sessionVars>>
  \/ \E rid \in StreamIds, kind \in TrackedKinds :
       StreamRequest(rid, kind) /\ UNCHANGED <<ordVars, sessionVars>>
  \/ \E rid \in StreamIds : StreamFinish(rid) /\ UNCHANGED <<ordVars, sessionVars>>
  \/ StreamSweep /\ UNCHANGED <<ordVars, sessionVars>>
  \/ StreamAdvance /\ UNCHANGED <<ordVars, sessionVars>>
  \/ quiet_fire /\ UNCHANGED <<ordVars, obsVars, sessionVars>>
  \/ timeout_guard /\ UNCHANGED <<ordVars, obsVars, sessionVars>>
  \/ wake_waiter /\ UNCHANGED <<ordVars, obsVars, sessionVars>>
  \/ finally_timeout /\ UNCHANGED <<ordVars, obsVars, sessionVars>>

StreamSpec == Init /\ [][StreamNext]_vars

(***************************************************************************)
(* The handlers under observation: one wait with the default ceiling, in   *)
(* which every step records the handler the loop ran last, the frame of a  *)
(* Page.frameStoppedLoading, and whether the event referred to a request   *)
(* that was in flight.                                                     *)
(***************************************************************************)
Handled(handler, arg, hit) ==
  /\ last_event' = [handler |-> handler, arg |-> arg, hit |-> hit]
  /\ UNCHANGED <<sweptAt, finished>>

NotHandled == Handled("none", "none", FALSE)

\* the Document request recorded for the frame is in flight
FrameHit(fid) == fid \in DOMAIN doc_by_frame /\ doc_by_frame[fid] \in inflight

EventNext ==
  \/ StartWait(None) /\ NotHandled /\ UNCHANGED <<ordVars, sessionVars>>
  \/ \E rid \in ReqIds, kind \in RequestKinds :
       on_request(rid, kind[1], kind[2]) /\ Handled("on_request", "none", FALSE)
         /\ UNCHANGED <<ordVars, sessionVars>>
  \/ \E rid \in ReqIds :
       on_finish(rid) /\ Handled("on_finish", "none", rid \in inflight)
         /\ UNCHANGED <<ordVars, sessionVars>>
  \/ \E rid \in ReqIds :
       on_failed(rid) /\ Handled("on_failed", "none", rid \in inflight)
         /\ UNCHANGED <<ordVars, sessionVars>>
  \/ \E rid \in ReqIds :
       on_cached(rid) /\ Handled("on_cached", "none", rid \in inflight)
         /\ UNCHANGED <<ordVars, sessionVars>>
  \/ \E rid \in ReqIds :
       on_data_url(rid, TRUE) /\ Handled("on_data_url", "none", rid \in inflight)
         /\ UNCHANGED <<ordVars, sessionVars>>
  \/ \E fid \in DocFrames :
       on_frame_stop(fid) /\ Handled("on_frame_stop", fid, FrameHit(fid))
         /\ UNCHANGED <<ordVars, sessionVars>>
  \/ quiet_fire /\ NotHandled /\ UNCHANGED <<ordVars, sessionVars>>
  \/ sweep_stalled_requests /\ NotHandled /\ UNCHANGED <<ordVars, sessionVars>>
  \/ timeout_guard /\ NotHandled /\ UNCHANGED <<ordVars, sessionVars>>
  \/ wake_waiter /\ NotHandled /\ UNCHANGED <<ordVars, sessionVars>>
  \/ finally_timeout /\ NotHandled /\ UNCHANGED <<ordVars, sessionVars>>
  \/ advance /\ NotHandled /\ UNCHANGED <<ordVars, sessionVars>>

EventSpec == Init /\ [][EventNext]_vars

(***************************************************************************)
(* The frame registry under arbitrary calls of its three methods           *)
(***************************************************************************)
RegNext ==
  \/ \E f \in RegIds, p \in RegPages :
       RegisterCall(f, p) /\ UNCHANGED <<settleVars, ordVars, obsVars, ctxVars, switchVars, a11yVars, utilVars>>
  \/ \E f \in RegIds : UnregisterCall(f) /\ UNCHANGED <<settleVars, ordVars, obsVars, ctxVars, switchVars, a11yVars, utilVars>>
  \/ \E f \in RegIds : LookupCall(f) /\ UNCHANGED <<settleVars, ordVars, obsVars, ctxVars, switchVars, a11yVars, utilVars>>

RegSpec == Init /\ [][RegNext]_vars

(***************************************************************************)
(* One page of the browser, "P": wrappers are created for it on demand,    *)
(* its root frame navigates and it closes.                                 *)
(***************************************************************************)
NavNext ==
  \/ \E j \in {"L1", "L2"} :
       GetStagehandPage(j, "P") /\ UNCHANGED <<settleVars, ordVars, obsVars, switchVars, a11yVars, utilVars>>
  \/ \E j \in {"L1", "L2"}, ok \in BOOLEAN :
       LookupInitDone(j, ok) /\ UNCHANGED <<settleVars, ordVars, obsVars, switchVars, a11yVars, utilVars>>
  \/ \E j \in {"L1", "L2"}, ok \in BOOLEAN :
       LookupAttachDone(j, ok) /\ UNCHANGED <<settleVars, ordVars, obsVars, switchVars, a11yVars, utilVars>>
  \/ \E f \in NavIds : FrameNavigated("P", f) /\ UNCHANGED <<settleVars, ordVars, obsVars, switchVars, a11yVars, utilVars>>
  \/ PageClosed("P") /\ UNCHANGED <<settleVars, ordVars, obsVars, switchVars, a11yVars, utilVars>>

NavSpec == Init /\ [][NavNext]_vars

(***************************************************************************)
(* Pages open in the browser while calls go through Stagehand.page         *)
(***************************************************************************)
SwitchNext ==
  \/ \E page \in NewPages : PageEvent(page) /\ UNCHANGED <<settleVars, ordVars, obsVars, a11yVars, utilVars>>
  \/ \E j \in GuardedJobs : GuardedStart(j) /\ UNCHANGED <<settleVars, ordVars, obsVars, a11yVars, utilVars>>
  \/ \E j \in GuardedJobs : GuardedAcquire(j) /\ UNCHANGED <<settleVars, ordVars, obsVars, a11yVars, utilVars>>
  \/ \E j \in GuardedJobs, ok \in BOOLEAN :
       GuardedInitDone(j, ok) /\ UNCHANGED <<settleVars, ordVars, obsVars, a11yVars, utilVars>>
  \/ \E j \in GuardedJobs, ok \in BOOLEAN :
       GuardedAttachDone(j, ok) /\ UNCHANGED <<settleVars, ordVars, obsVars, a11yVars, utilVars>>
  \/ \E j \in GuardedJobs : GuardedTimeout(j) /\ UNCHANGED <<settleVars, ordVars, obsVars, a11yVars, utilVars>>
  \/ \E j \in DirectJobs, ok \in BOOLEAN :
       DirectInitDone(j, ok) /\ UNCHANGED <<settleVars, ordVars, obsVars, a11yVars, utilVars>>
  \/ \E j \in DirectJobs, ok \in BOOLEAN :
       DirectAttachDone(j, ok) /\ UNCHANGED <<settleVars, ordVars, obsVars, a11yVars, utilVars>>
  \/ \E j \in DirectJobs, ok \in BOOLEAN :
       DirectAttach2Done(j, ok) /\ UNCHANGED <<settleVars, ordVars, obsVars, a11yVars, utilVars>>
  \/ \E name \in ProxyNames : ProxyGetattr(name) /\ UNCHANGED <<settleVars, ordVars, obsVars, a11yVars, utilVars>>
  \/ OpAcquire /\ UNCHANGED <<settleVars, ordVars, obsVars, a11yVars, utilVars>>
  \/ OpWake /\ UNCHANGED <<settleVars, ordVars, obsVars, a11yVars, utilVars>>
  \/ OpRun /\ UNCHANGED <<settleVars, ordVars, obsVars, a11yVars, utilVars>>
  \/ OpTimeout /\ UNCHANGED <<settleVars, ordVars, obsVars, a11yVars, utilVars>>
  \/ OpFinish /\ UNCHANGED <<settleVars, ordVars, obsVars, a11yVars, utilVars>>
  \/ ClockAdvance /\ UNCHANGED <<settleVars, ordVars, obsVars, a11yVars, utilVars>>

SwitchSpec == Init /\ [][SwitchNext]_vars

(***************************************************************************)
(* The action layer asks for the page state, again and again               *)
(***************************************************************************)
A11yNext ==
  \/ \E tree \in FrameTrees, overlays_ok \in BOOLEAN :
       A11yStart(tree, overlays_ok)
         /\ UNCHANGED <<settleVars, ordVars, obsVars, regVars, ctxVars, switchVars, utilVars>>
  \/ \E outcome \in {"ok", "no_id", "failed"} :
       FetchFrame(outcome)
         /\ UNCHANGED <<settleVars, ordVars, obsVars, regVars, ctxVars, switchVars, utilVars>>
  \/ A11yMerge /\ UNCHANGED <<settleVars, ordVars, obsVars, regVars, ctxVars, switchVars, utilVars>>

A11ySpec == Init /\ [][A11yNext]_vars

(***************************************************************************)
(* Two tasks ask one page wrapper for protocol sessions                    *)
(***************************************************************************)
notCdp == <<settleVars, ordVars, obsVars, regVars, ctxVars, switchVars, a11yVars, axVars, locVars, shVars, domVars, lateVars>>

CdpNext ==
  \/ \E c \in CdpTasks, target \in CdpTargets : GetCdpClient(c, target) /\ UNCHANGED notCdp
  \/ \E c \in CdpTasks, outcome \in {"ok", "no_separate", "error"} :
       CreateDone(c, outcome) /\ UNCHANGED notCdp
  \/ \E c \in CdpTasks, ok \in BOOLEAN : FallbackDone(c, ok) /\ UNCHANGED notCdp

CdpSpec == Init /\ [][CdpNext]_vars

(***************************************************************************)
(* One accessibility tree is built, then cleaned once more                 *)
(***************************************************************************)
notAx == <<settleVars, ordVars, obsVars, regVars, ctxVars, switchVars, a11yVars, cdpVars, locVars, shVars, domVars, lateVars>>

AxNext ==
  \/ ax_pc = "idle" /\ \E input \in AxInputs : AxLoad(input) /\ UNCHANGED notAx
  \/ AxBuild /\ UNCHANGED notAx
  \/ AxReclean /\ UNCHANGED notAx

AxSpec == Init /\ [][AxNext]_vars

(***************************************************************************)
(* Element paths are resolved one after the other                          *)
(***************************************************************************)
notLoc ==
  <<settleVars, ordVars, obsVars, regVars, ctxVars, switchVars, a11yVars, cdpVars, axVars,
    shVars, domVars, lateVars>>

LocNext ==
  \/ loc_pc = "idle" /\ \E xpath \in LocPaths : DeepLocator(xpath) /\ UNCHANGED notLoc
  \/ LocatorUsed /\ UNCHANGED notLoc

LocSpec == Init /\ [][LocNext]_vars

(***************************************************************************)
(* Paths with shadow hops are resolved one after the other                 *)
(***************************************************************************)
notSh ==
  <<settleVars, ordVars, obsVars, regVars, ctxVars, switchVars, a11yVars, cdpVars, axVars,
    locVars, domVars, lateVars>>

ShNext ==
  \/ sh_pc = "idle" /\ \E xpath \in LocPaths : DeepLocatorWithShadow(xpath) /\ UNCHANGED notSh
  \/ \E outcome \in {"noRoot", "notFound", "found", "no_host_element"} :
       ShadowResolved(outcome) /\ UNCHANGED notSh
  \/ ShadowCallOver /\ UNCHANGED notSh

ShSpec == Init /\ [][ShNext]_vars

(***************************************************************************)
(* The maps of one DOM tree after the other                                *)
(***************************************************************************)
notDom ==
  <<settleVars, ordVars, obsVars, regVars, ctxVars, switchVars, a11yVars, cdpVars, axVars,
    locVars, shVars, lateVars>>

DomNext ==
  \/ dom_pc = "idle" /\ \E d \in DomInputs : BuildBackendIdMaps(d) /\ UNCHANGED notDom
  \/ DomMapsTaken /\ UNCHANGED notDom

DomSpec == Init /\ [][DomNext]_vars

\* Runs of the workflow
notFlow ==
  <<settleVars, ordVars, obsVars, regVars, ctxVars, switchVars, a11yVars, cdpVars, axVars,
    locVars, shVars, domVars, injVars>>

FlowNext ==
  \/ \E max_steps \in 0..MaxStepsArg : FlowRun(max_steps) /\ UNCHANGED notFlow
  \/ \E answer \in PlanAnswers : PlanNode(answer) /\ UNCHANGED notFlow
  \/ \E outcome \in ToolOutcomes : ExecutorNode(outcome) /\ UNCHANGED notFlow
  \/ \E answer \in ConditionalAnswers : ConditionalNode(answer) /\ UNCHANGED notFlow
  \/ CounterNode /\ UNCHANGED notFlow
  \/ FlowOver /\ UNCHANGED notFlow

FlowSpec == Init /\ [][FlowNext]_vars

(***************************************************************************)
(* Calls of inject_subtrees                                                *)
(***************************************************************************)
notInject ==
  <<settleVars, ordVars, obsVars, regVars, ctxVars, switchVars, a11yVars, cdpVars, axVars,
    locVars, shVars, domVars, flowVars>>

InjectNext ==
  \/ inj_pc = "idle" /\ \E tree \in Outlines, idmap \in IdMaps :
       InjectCall(tree, idmap) /\ UNCHANGED notInject
  \/ InjectStep /\ UNCHANGED notInject
  \/ InjectReturn /\ UNCHANGED notInject
  \/ InjectOver /\ UNCHANGED notInject

InjectSpec == Init /\ [][InjectNext]_vars

(***************************************************************************)
(* Properties of the DOM settle monitor                                    *)
(***************************************************************************)

\* C1: the wait resolves through the quiet timer only when the in-flight set
\* has been empty for a continuous 500 ms: an armed quiet timer implies an
\* empty set and is due no earlier than 500 ms after the set became empty,
\* every tracked request start leaves no quiet timer armed, and the step in
\* which the quiet timer resolves the wait sees 500 ms of emptiness.
C1_QuietNeedsContinuousIdle ==
  /\ [](quiet_timer.live =>
         /\ inflight = {}
         /\ emptySince # None
         /\ quiet_timer.due >= emptySince + QuietMs)
  /\ [][(\E r \in inflight' : r \notin inflight \/ meta'[r] # meta[r])
          => quiet_timer' = NoTimer]_vars
  /\ [][(resolvedBy = "none" /\ resolvedBy' = "quiet")
          => (inflight = {} /\ emptySince # None /\ now - emptySince >= QuietMs)]_vars

C1_Witness ==
  /\ pc = "returned"
  /\ resolvedBy = "quiet"
  /\ nStarted >= 2
  /\ returnedAt < timeout

\* C2: whatever the events, unless the caller is cancelled the wait never
\* outlives its ceiling: time does not pass the ceiling, the ceiling task that
\* has run has set the done event, and the call returns without an exception
\* no later than the ceiling.
C2_ReturnsByCeiling ==
  resolvedBy # "cancel" =>
    /\ (pc # "init" => now <= timeout)
    /\ (timeout_task.state = "done" => done_event)
    /\ ((pc = "waiting" /\ ~done_event) => timeout_task.state = "sleeping")
    /\ (pc = "returned" => (~raised /\ returnedAt <= timeout))

C2_Witness ==
  /\ pc = "returned"
  /\ resolvedBy = "ceiling"
  /\ loggedCount = 2
  /\ returnedAt = timeout
  /\ \E r \in inflight : meta[r] = now

\* C3: with a single request that starts and never finishes and a 30 000 ms
\* ceiling, the wait does not return before the ceiling and reports exactly one
\* outstanding request.
C3_SingleStalledRequestWaitsForCeiling ==
  (stream = "one" /\ timeout_ms = 30000 /\ pc = "returned" /\ ~raised)
    => (returnedAt >= 30000 /\ loggedCount = 1)

\* C4 as stated: with no network event at all the wait returns when the first
\* quiet timer fires, 500 ms after monitoring starts, and not at the ceiling.
C4_NoEventsReturnsAtQuiet ==
  (stream = "none" /\ pc = "returned" /\ ~raised)
    => (resolvedBy = "quiet" /\ returnedAt = QuietMs)

\* C4 amended: with no network event at all and a ceiling longer than the
\* 500 ms quiet window the wait returns when the first quiet timer fires,
\* 500 ms after monitoring starts and before the ceiling; with a shorter
\* ceiling it returns at the ceiling.
C4_NoEventsReturnsAtQuietOrShortCeiling ==
  (stream = "none" /\ pc = "returned" /\ ~raised) =>
    /\ (timeout > QuietMs =>
          (resolvedBy = "quiet" /\ returnedAt = QuietMs /\ returnedAt < timeout))
    /\ (timeout < QuietMs => (resolvedBy = "ceiling" /\ returnedAt = timeout))

C4_Witness ==
  /\ stream = "none"
  /\ pc = "returned"
  /\ resolvedBy = "quiet"
  /\ timeout_ms = None
  /\ returnedAt = QuietMs

\* C5 as stated (scripted stream): once the three requests have started the
\* wait is not resolved before the two completions nor while the third request
\* is in flight, and it returns within 500 ms of the sweep that removed the
\* stalled request.
C5_StreamResolvesOnlyAfterSweep ==
  /\ (nStarted = 3 /\ done_event) => (Cardinality(finished) = 2 /\ inflight = {})
  /\ (nStarted = 3 /\ sweptAt # None) =>
        (now <= sweptAt + QuietMs /\ (pc = "returned" => returnedAt <= sweptAt + QuietMs))

\* C5 amended (scripted stream): once the three requests have started the
\* quiet timer does not resolve the wait before the two completions nor while
\* the third request is in flight (only the ceiling can), and the wait returns
\* within 500 ms of the sweep that removed the stalled request.
C5_StreamQuietOnlyAfterSweep ==
  /\ (nStarted = 3 /\ resolvedBy = "quiet") =>
        (Cardinality(finished) = 2 /\ inflight = {} /\ sweptAt # None)
  /\ (nStarted = 3 /\ sweptAt # None) =>
        (now <= sweptAt + QuietMs /\ (pc = "returned" => returnedAt <= sweptAt + QuietMs))

C5_Witness ==
  /\ nStarted = 3
  /\ Cardinality(finished) = 2
  /\ pc = "returned"
  /\ resolvedBy = "quiet"
  /\ sweptAt # None
  /\ returnedAt = sweptAt + QuietMs

\* C6: resolve_done runs at most once, and after the return, by the quiet
\* window, the ceiling or the cancellation of the caller, no listener is
\* registered, no quiet timer is armed, and the sweep task and the ceiling task
\* are cancelled or finished.
C6_CleanAfterReturn ==
  /\ resolveCount <= 1
  /\ pc = "returned" =>
       /\ listeners = {}
       /\ ~quiet_timer.live
       /\ sweep_task.state = "cancelled"
       /\ timeout_task.state \in {"cancelled", "done"}
       /\ (resolvedBy \in {"quiet", "ceiling"} => (resolveCount = 1 /\ done_event))

C6_Witness ==
  /\ pc = "returned"
  /\ resolvedBy = "ceiling"
  /\ quiet_timer # NoTimer
  /\ timeout_task.state = "done"

\* C7: without a timeout argument the ceiling is 30 000 ms, and with one the
\* ceiling is the argument.
C7_CeilingIsArgumentOr30s ==
  pc # "init" => timeout = (IF timeout_ms = None THEN 30000 ELSE timeout_ms)

(***************************************************************************)
(* Properties of the frame ordinals                                        *)
(***************************************************************************)
DigitVal(c) ==
  CASE c = "0" -> 0 [] c = "1" -> 1 [] c = "2" -> 2 [] c = "3" -> 3 [] c = "4" -> 4
    [] c = "5" -> 5 [] c = "6" -> 6 [] c = "7" -> 7 [] c = "8" -> 8 [] c = "9" -> 9

RECURSIVE ParseNat(_)
ParseNat(cs) ==
  IF Len(cs) = 0 THEN 0
  ELSE 10 * ParseNat(SubSeq(cs, 1, Len(cs) - 1)) + DigitVal(cs[Len(cs)])

\* an EncodedId read back as <<ordinal, backend id>>; <<None, None>> if malformed
ParseEncoded(cs) ==
  LET dashes == {i \in 1..Len(cs) : cs[i] = "-"}
  IN  IF Cardinality(dashes) # 1 THEN <<None, None>>
      ELSE LET p == CHOOSE i \in dashes : TRUE
           IN  IF p = 1 \/ p = Len(cs) THEN <<None, None>>
               ELSE <<ParseNat(SubSeq(cs, 1, p - 1)), ParseNat(SubSeq(cs, p + 1, Len(cs)))>>

\* C8: between two resets every (frameId, backendId) pair has received one
\* EncodedId only, and two different pairs have never received the same one.
C8_EncodedIdBijection ==
  \A k1, k2 \in DOMAIN received :
    /\ Cardinality(received[k1]) = 1
    /\ (k1 # k2 => received[k1] \cap received[k2] = {})

C8_Witness ==
  /\ \A f \in FrameIds \cup {None} : \E b \in BackendIds : <<f, b>> \in DOMAIN received
  /\ \E f \in FrameIds : \A b \in BackendIds : <<f, b>> \in DOMAIN received
  /\ last_call.op = "encode"
  /\ last_call.fid \in DOMAIN last_call.before

\* C9: None gives 0 and leaves the table alone; a frame id seen for the first
\* time gets the next unused integer, its rank in order of first sighting; a
\* frame id seen before gets its ordinal again and the table is unchanged; and
\* the EncodedId reads back as that ordinal and the backend id.
C9_OrdinalDeterministic ==
  /\ \A i \in 1..Len(seenOrder) : fid_ordinals[seenOrder[i]] = i
  /\ last_call.op \in {"ordinal", "encode"} =>
       LET c == last_call
           ord == IF c.op = "ordinal" THEN c.ret ELSE ParseEncoded(c.ret)[1]
       IN  /\ (c.fid = None => (ord = 0 /\ fid_ordinals = c.before))
           /\ ((c.fid # None /\ c.fid \in DOMAIN c.before) =>
                 (ord = c.before[c.fid] /\ fid_ordinals = c.before))
           /\ (c.fid \notin DOMAIN c.before =>
                 /\ ord = Len(seenOrder)
                 /\ seenOrder[ord] = c.fid
                 /\ \A f \in DOMAIN c.before : c.before[f] < ord)
           /\ (c.op = "encode" => ParseEncoded(c.ret) = <<ord, c.backend_id>>)

C9_Witness ==
  /\ last_call.op = "encode"
  /\ last_call.fid # None
  /\ last_call.fid \in DOMAIN last_call.before
  /\ Len(seenOrder) = MaxFrames
  /\ seenOrder[MaxFrames] = last_call.fid

\* C10 as stated: an EncodedId made with the page's root frame id reads
\* "0-<backendId>", like one made with None.
C10_RootFrameIdEncodesAsZero ==
  \A k \in DOMAIN received :
    (k[1] = None \/ k[1] = root_frame_id) =>
      \A e \in received[k] : ParseEncoded(e) = <<0, k[2]>>

\* C10 amended: an EncodedId made with None reads "0-<backendId>" whatever
\* frame ids were seen before; one made with any frame id given explicitly,
\* the page's root frame id included, carries that id's own ordinal, which is
\* at least 1.
C10_OnlyNoneEncodesAsZero ==
  \A k \in DOMAIN received :
    \A e \in received[k] :
      /\ (k[1] = None => ParseEncoded(e) = <<0, k[2]>>)
      /\ (k[1] # None => (ParseEncoded(e)[1] >= 1 /\ ParseEncoded(e)[2] = k[2]))

C10_Witness ==
  /\ root_frame_id \in FrameIds
  /\ Len(seenOrder) = MaxFrames
  /\ seenOrder[MaxFrames] = root_frame_id
  /\ \E b \in BackendIds : <<root_frame_id, b>> \in DOMAIN received
                              /\ <<None, b>> \in DOMAIN received
  /\ last_call.op = "encode"
  /\ last_call.fid = None


(***************************************************************************)
(* Properties of the frame registry                                        *)
(***************************************************************************)

\* C12: after register_frame_id(f, p) a lookup of f returns p, whatever was
\* registered for f before; after unregister_frame_id(f) a lookup of f returns
\* nothing; unregistering an id that is not registered changes nothing; and
\* neither call changes the entry of an id other than f.
C12_RegistryLastWriteWins ==
  [][ /\ reg_call'.op = "register" =>
           /\ get_stagehand_page_by_frame_id(frame_id_map', reg_call'.frame_id)
                = reg_call'.page
           /\ \A g \in RegIds \ {reg_call'.frame_id} :
                get_stagehand_page_by_frame_id(frame_id_map', g)
                  = get_stagehand_page_by_frame_id(frame_id_map, g)
      /\ reg_call'.op = "unregister" =>
           /\ get_stagehand_page_by_frame_id(frame_id_map', reg_call'.frame_id) = NoPage
           /\ ~reg_call'.known => frame_id_map' = frame_id_map
           /\ \A g \in RegIds \ {reg_call'.frame_id} :
                get_stagehand_page_by_frame_id(frame_id_map', g)
                  = get_stagehand_page_by_frame_id(frame_id_map, g)
      /\ reg_call'.op = "lookup" =>
           /\ frame_id_map' = frame_id_map
           /\ reg_call'.ret
                = get_stagehand_page_by_frame_id(frame_id_map, reg_call'.frame_id)
    ]_<<frame_id_map, reg_call>>

\* an id registered twice, to two pages, and a second id that is registered
C12_Witness ==
  /\ reg_call.op = "register"
  /\ reg_call.frame_id = InitialRoot["A"]
  /\ frame_id_map[InitialRoot["A"]] # InitPage
  /\ InitialRoot["P"] \in DOMAIN frame_id_map

\* C11: when the root frame of a page with an attached wrapper navigates to
\* a new protocol frame id, in that same step the registry drops the old id,
\* maps the new id to the page's wrapper, and the wrapper's root frame id
\* becomes the new id.
C11_RootNavigationMovesRegistration ==
  [][ \A pw \in PwPages :
        ( /\ browser_root'[pw] # browser_root[pw]
          /\ page_map[pw] # NoPage
          /\ page_map[pw] \in close_listeners[pw] )
        => LET w == page_map[pw]
           IN /\ browser_root[pw] \notin DOMAIN frame_id_map'
              /\ get_stagehand_page_by_frame_id(frame_id_map', browser_root'[pw]) = w
              /\ sh_root_frame_id'[w] = browser_root'[pw]
    ]_<<browser_root, frame_id_map, sh_root_frame_id>>

\* C13: once a page is closed and no initialisation of a wrapper for it is
\* still running, the registry has no entry for the root frame id held by any
\* wrapper of that page.
C13_ClosedPageNotRegistered ==
  \A pw \in closed :
    (\A j \in JobIds : jobs[j].pw = pw => jobs[j].st \in {"done", "raised"})
    => \A w \in PagesOf(pw) :
         sh_root_frame_id[w] # EmptyStr => sh_root_frame_id[w] \notin DOMAIN frame_id_map

(***************************************************************************)
(* Properties of the page-switch lock and the live page proxy              *)
(***************************************************************************)
HandlerHoldsGuard == lock_holder \in GuardedJobs

\* C14: the proxy never reads the active page, and never starts the
\* delegated operation, in a state where a new-page handler holds the
\* page-switch lock.
C14_NoReadWhileSwitching ==
  [][ /\ (op.st = "idle" /\ op'.st # "idle") => ~HandlerHoldsGuard
      /\ (op.st # "running" /\ op'.st = "running") => ~HandlerHoldsGuard
    ]_<<op, lock_holder>>

\* C15: the page an operation is delegated to is the page most recently
\* passed to Stagehand._set_active_page.
C15_DelegatesToActivePage ==
  [][ (op.st = "idle" /\ op'.st # "idle") => op'.page = st_page ]_<<op, st_page>>

\* C16: when the 30 s of _ensure_page_stability run out, the delegated
\* operation is not run, RuntimeError caused by the "possible deadlock"
\* TimeoutError is raised, and the waiter neither holds the lock nor stays
\* in its queue; the wait never lasts longer than the 30 s.
C16_StabilityTimeoutRaises ==
  /\ [](op.st = "raised" =>
          /\ op.err = "RuntimeError"
          /\ op.cause = "Page stability lock timeout - possible deadlock detected"
          /\ ~op.ran
          /\ lock_holder # "op"
          /\ ~InQueue(lock_waiters, "op"))
  /\ [](op.st \in {"stabilizing", "lockwait"} => clock <= deadline["op"])
  /\ [][ /\ (op.st = "lockwait" /\ op'.st # "lockwait" /\ lock_holder # "none")
              => op'.st = "raised"
         /\ op.st = "raised" => op'.st \in {"raised", "idle"}
       ]_<<op, lock_holder>>

\* the lock was held by a handler for the whole 30 s
C16_Witness ==
  /\ op.st = "raised"
  /\ op.name = "get_a11y_tree"
  /\ HandlerHoldsGuard
  /\ clock >= StabilityTimeoutS

\* C17: once both handlers of the "page" event of a new page have finished
\* (the direct one with a wrapper), the active page wraps that page.
C17_NewPageIsActive ==
  \A page \in NewPages :
    ( /\ events = {page}
      /\ jobs[GOf(page)].st \in {"done", "failed", "timeout"}
      /\ jobs[DOf(page)].st = "done" )
    => /\ active_stagehand_page \in PagesOf(page)
       /\ st_page \in PagesOf(page)

\* C18: _handle_new_page ends by returning; in the step in which it ends
\* after a failed wrapper creation or after the 30 s timeout it logs an
\* error, leaves the active page as it is, and neither holds the lock nor
\* stays in its queue afterwards.
C18_HandleNewPageNeverRaises ==
  /\ [](\A j \in GuardedJobs :
          /\ jobs[j].st # "raised"
          /\ jobs[j].st \in {"failed", "timeout"} =>
               /\ lock_holder # j
               /\ ~InQueue(lock_waiters, j)
               /\ j \in errors_logged)
  /\ [][ \A j \in GuardedJobs :
           (jobs[j].st \notin {"failed", "timeout"} /\ jobs'[j].st \in {"failed", "timeout"})
           => /\ active_stagehand_page' = active_stagehand_page
              /\ st_page' = st_page
       ]_<<jobs, active_stagehand_page, st_page>>

\* one handler failed to create its wrapper, the other one timed out
C18_Witness ==
  /\ jobs["GP"].st = "failed"
  /\ jobs["GQ"].st = "timeout"
  /\ lock_holder = "none"

(***************************************************************************)
(* Properties of the page state                                            *)
(***************************************************************************)

\* C19: the page-state result handed to the action layer always contains the
\* four fields combinedTree, combinedXpathMap, combinedUrlMap and
\* discoveredIframes.
C19_ResultHasFourFields ==
  a11y_pc = "returned" =>
    DOMAIN a11y_result =
      {"combinedTree", "combinedXpathMap", "combinedUrlMap", "discoveredIframes"}

\* the frames of the page during the call
PageFrames == {MainFrame} \cup DOMAIN parent_frame

\* C20, as stated: a failure on an iframe is caught and the iframe omitted
\* while the other frames are merged and returned, and a failure on the main
\* frame propagates to the caller, so that no call that failed on the main
\* frame goes on walking or returns a result.
C20_MainFrameFailurePropagates ==
  /\ a11y_pc = "returned" =>
       /\ a11y_result.combinedXpathMap = PageFrames \ a11y_log
       /\ a11y_log \cap a11y_result.combinedXpathMap = {}
  /\ a11y_pc \in {"walking", "returned"} => MainFrame \notin a11y_log

\* C20, amended: a failure while fetching the tree of any frame, the main
\* frame included, is caught and logged and that frame is omitted; the call
\* never raises, every frame of the page is either logged as failed or
\* merged, and the outline is built on the main frame's tree when it was
\* fetched, else on the first fetched frame's tree, else it is empty.
C20_EveryFrameFailureIsOmitted ==
  /\ a11y_pc # "raised"
  /\ a11y_pc = "returned" =>
       /\ a11y_result.combinedXpathMap = PageFrames \ a11y_log
       /\ a11y_log \cap a11y_result.combinedXpathMap = {}
       /\ a11y_result.combinedTree.subtrees \subseteq a11y_result.combinedXpathMap
       /\ IF MainFrame \in a11y_log
            THEN /\ a11y_result.combinedTree.subtrees = {}
                 /\ a11y_result.combinedTree.base
                      \in (a11y_result.combinedXpathMap \cup {None})
                 /\ a11y_result.combinedTree.base = None
                      <=> a11y_result.combinedXpathMap = {}
            ELSE a11y_result.combinedTree.base = MainFrame

\* a call returned although the main frame and an iframe failed, and another
\* iframe was merged
C20_Witness ==
  /\ a11y_pc = "returned"
  /\ MainFrame \in a11y_log
  /\ \E f \in FrameIds : f \in a11y_log
  /\ \E f \in FrameIds : f \in a11y_result.combinedXpathMap

(***************************************************************************)
(* Properties of the in-flight set                                         *)
(***************************************************************************)

\* a step of the sweep task: it woke from its sleep and did not get cancelled
SweepStep ==
  /\ sweep_task.state = "sleeping"
  /\ sweep_task' # sweep_task
  /\ sweep_task'.state # "cancelled"

\* C29: the sweep runs every 500 ms while the wait is unresolved, and after
\* every run no request that has been open for 2 s or longer is left in the
\* in-flight set, whatever its resource type.
C29_SweepRemovesRequestsOpenTwoSeconds ==
  /\ [](pc = "waiting" /\ ~done_event =>
          sweep_task.state = "sleeping" /\ sweep_task.wake - now <= SweepMs)
  /\ [][SweepStep => \A r \in inflight' : now - meta'[r] < StallMs]_vars

\* C30: during one wait the in-flight set holds exactly the ids whose tracked
\* start (a type other than WebSocket and EventSource) was observed in this
\* call and that no loadingFinished, loadingFailed, requestServedFromCache,
\* data: responseReceived, frame-stopped clear or sweep removal has ended
\* since; a responseReceived for another URL leaves the set as it is.
C30_InflightIsTrackedSet == inflight = tracked /\ DOMAIN meta = inflight

\* two tracked requests were started and one of them was ended: the set holds
\* the other one
C30_Witness ==
  /\ pc = "waiting"
  /\ nStarted = MaxReq
  /\ Cardinality(inflight) = 1
  /\ stream = "other"
(***************************************************************************)
(* Properties of the session cache                                         *)
(***************************************************************************)

\* C28: get_cdp_client returns the same session object on every call for the
\* same target and creates at most one session per target; when creating a
\* session for a frame fails because the frame has no separate session, the
\* page's root session is returned and cached for that frame, and any other
\* creation failure is raised to the caller.
C28_OneSessionPerTarget ==
  /\ \A t \in CdpTargets :
       /\ Cardinality(handed_out[t]) <= 1
       /\ Cardinality(created[t]) <= 1
       /\ handed_out[t] # {} /\ created[t] = {} =>
            /\ t # "page"
            /\ handed_out[t] = {cdp_clients["page"]}
            /\ cdp_clients[t] = cdp_clients["page"]
  /\ \A c \in CdpTasks : cdp_calls[c].st = "raised" => cdp_calls[c].result = None
(***************************************************************************)
(* Properties of the cleaned accessibility tree                            *)
(***************************************************************************)

\* C25: re-running clean_structural_nodes on a tree it has already cleaned
\* returns the same tree: no node is dropped, collapsed or renamed.
C25_CleanIsFixpoint == ax_pc = "recleaned" => ax_recleaned = ax_tree

\* C26: every node in the tree returned by build_hierarchical_tree has a
\* non-empty name, at least one child, or an interactive role (a role other
\* than none, generic and InlineTextBox).
C26_RetainedNodesMatter ==
  ax_pc \in {"built", "recleaned"} =>
    \A node \in tree_nodes(ax_tree) :
      node.name # <<>> \/ node.children # <<>> \/ is_interactive(node.role)
(***************************************************************************)
(* Properties of the path resolvers                                        *)
(***************************************************************************)

\* the steps of a path and, among them, the iframe steps (tag iframe with an
\* optional predicate)
StepsOf(path) == non_empty(split(path))

IsIframeStep(step) == step \in {<<"iframe">>, <<"iframe[1]">>, <<"iframe[2]">>}

RECURSIVE Flatten(_)
Flatten(seqs) == IF seqs = <<>> THEN <<>> ELSE Head(seqs) \o Flatten(Tail(seqs))

\* C23: deep_locator descends into exactly as many iframe contexts as the
\* path has iframe steps, in path order, each descent scoped to the steps
\* buffered since the previous one, and resolves the final locator from the
\* remaining steps in the last context; the sample path gives two descents
\* and then span[3]; a path without a leading '/' resolves like the same path
\* with it.
C23_OneDescentPerIframeStep ==
  loc_pc = "returned" =>
    LET steps == StepsOf(loc_path)
        descents == loc_result.ctx
    IN /\ Len(descents) = Cardinality({k \in 1..Len(steps) : IsIframeStep(steps[k])})
       /\ Flatten(descents) \o loc_result.final = steps
       /\ \A d \in 1..Len(descents) :
            /\ IsIframeStep(descents[d][Len(descents[d])])
            /\ \A k \in 1..(Len(descents[d]) - 1) : ~IsIframeStep(descents[d][k])
       /\ \A k \in 1..Len(loc_result.final) : ~IsIframeStep(loc_result.final[k])
       /\ loc_path \in {SamplePath, Tail(SamplePath)} =>
            /\ descents = << <<<<"html">>, <<"body">>, <<"iframe[1]">>>>,
                        <<<<"div">>, <<"iframe[2]">>>> >>
            /\ loc_result.final = <<<<"span[3]">>>>
       /\ loc_result = deep_locator(<<Slash>> \o loc_path)
            \/ (loc_path # <<>> /\ loc_path[1] = Slash)

\* the sample path without its leading slash was resolved: two descents
C23_Witness ==
  /\ loc_pc = "returned"
  /\ loc_path = Tail(SamplePath)
  /\ Len(loc_result.ctx) = 2

\* the steps of the locator calls of a chain, in order
RECURSIVE CallSteps(_)
CallSteps(calls) ==
  IF calls = <<>> THEN <<>> ELSE Head(calls).steps \o CallSteps(Tail(calls))

\* token h is a shadow hop with nothing to resolve after it
EmptySegmentAt(toks, h) ==
  /\ toks[h] = <<>>
  /\ h = Len(toks) \/ toks[h + 1] = <<>> \/ IsIframeStep(toks[h + 1])

\* C24: in deep_locator_with_shadow an empty step flushes the buffered steps
\* first and takes the following steps up to the next hop, iframe step or end
\* as the shadow segment; StagehandShadowSegmentEmptyError,
\* StagehandShadowRootMissingError or StagehandShadowSegmentNotFoundError is
\* raised, and no locator returned, when the segment is empty, when the host
\* has no shadow root, or when nothing matched within the timeout.
C24_ShadowHopSegmentsAndErrors ==
  /\ sh_pc = "resolving" =>
       /\ tokens[sh_i] = <<>>
       /\ buffer = <<>>
       /\ CallSteps(ctx) = non_empty(SubSeq(tokens, 1, sh_i - 1))
       /\ seg # <<>>
       /\ seg = SubSeq(tokens, sh_i + 1, sh_j - 1)
       /\ \A k \in 1..Len(seg) : seg[k] # <<>> /\ ~IsIframeStep(seg[k])
       /\ sh_j > Len(tokens) \/ tokens[sh_j] = <<>> \/ IsIframeStep(tokens[sh_j])
  /\ sh_pc = "raised" => sh_result = <<>> /\ sh_error # "none"
  /\ sh_error = "StagehandShadowSegmentEmptyError" =>
       sh_pc = "raised" /\ EmptySegmentAt(tokens, sh_i)
  /\ sh_pc = "returned" =>
       /\ Len(sh_result) = 1
       /\ \A h \in 2..Len(tokens) : ~EmptySegmentAt(tokens, h)
  /\ sh_outcome = "noRoot" =>
       sh_pc = "raised" /\ sh_error = "StagehandShadowRootMissingError"
  /\ sh_outcome = "notFound" =>
       sh_pc = "raised" /\ sh_error = "StagehandShadowSegmentNotFoundError"

\* nothing matched the segment of a hop whose host is the element located by
\* the steps flushed before it
C24_Witness ==
  /\ sh_pc = "raised"
  /\ sh_error = "StagehandShadowSegmentNotFoundError"
  /\ Len(ctx) = 1
  /\ ctx[1] = LocatorCall("locator", FALSE, <<<<"div">>>>)
  /\ seg = <<<<"div">>>>

(***************************************************************************)
(* Properties of build_backend_id_maps                                     *)
(***************************************************************************)

\* the entries popped that carried a backend id, and the first of them with
\* a given EncodedId
Registered == {k \in 1..Len(dom_walk.popped) : dom_walk.popped[k].enc # <<>>}

FirstWith(enc) ==
  CHOOSE k \in Registered :
    /\ dom_walk.popped[k].enc = enc
    /\ \A h \in Registered : dom_walk.popped[h].enc = enc => k <= h

\* every node has a backend id of its own and every content document hangs
\* under an iframe element
AllDistinctAndWalkable ==
  \A n \in DomIds \ {1} :
    /\ dom.node[n].ident = "own"
    /\ dom.node[n].link # "child" =>
         dom.parent[n] # 1 /\ dom.node[dom.parent[n]].link = "child"
                           /\ dom.node[dom.parent[n]].nodeName = "IFRAME"

\* C27: build_backend_id_maps returns tagNameMap and xpathMap with the same
\* key set, one entry per distinct EncodedId (frame ordinal, backend id)
\* visited; a DOM whose N nodes have N distinct backend ids gives exactly N
\* entries; a node reached again under a registered EncodedId adds no entry
\* and leaves the first path in place.
C27_MapsAreOneToOne ==
  dom_pc = "returned" =>
    /\ DOMAIN dom_walk.tag_name_map = DOMAIN dom_walk.xpath_map
    /\ DOMAIN dom_walk.xpath_map = {dom_walk.popped[k].enc : k \in Registered}
    /\ \A k \in Registered :
         dom_walk.xpath_map[dom_walk.popped[k].enc] =
           dom_walk.popped[FirstWith(dom_walk.popped[k].enc)].entry.path
    /\ AllDistinctAndWalkable => Cardinality(DOMAIN dom_walk.xpath_map) = MaxDomNodes

\* a node was reached again under the EncodedId of the document, with a path
\* that differs from the document's
C27_Witness ==
  /\ dom_pc = "returned"
  /\ \E k \in Registered :
       /\ k # FirstWith(dom_walk.popped[k].enc)
       /\ dom_walk.popped[k].entry.path # <<>>
       /\ dom_walk.popped[k].enc = <<"0", "-", "1">>

(***************************************************************************)
(* Properties of the merged text                                           *)
(***************************************************************************)

\* the absolute path of the iframe element hosting frame f: the paths of the
\* iframe elements of its ancestors and its own, one after the other
RECURSIVE AbsIframePath(_, _)
AbsIframePath(tree, f) ==
  IF f = MainFrame THEN <<>>
  ELSE AbsIframePath(tree, tree[f]) \o element_path(page_dom(tree), iframe_node(tree[f], f))

IsPrefix(p, str) == Len(p) <= Len(str) /\ SubSeq(str, 1, Len(p)) = p

\* the EncodedId belongs to frame f: its first part is the ordinal of f
BelongsTo(enc, f) ==
  /\ get_cdp_frame_id(f) \in DOMAIN a11y_text.ordinals
  /\ parse_int(split_on(enc, "-")[1]) = a11y_text.ordinals[get_cdp_frame_id(f)]

OuterFrame == MainFrame + 1
InnerFrame == MainFrame + 2

\* the main document hosts an iframe that hosts an inner iframe with the
\* button, and the three snapshots were taken, with their ids
NestedPageMerged ==
  /\ a11y_pc = "returned"
  /\ DOMAIN parent_frame = {OuterFrame, InnerFrame}
  /\ parent_frame[OuterFrame] = MainFrame
  /\ parent_frame[InnerFrame] = OuterFrame
  /\ Len(snapshots) = 3
  /\ snapshots[2].has_id /\ snapshots[3].has_id

C22_ChildPathsBeginWithIframePath ==
  a11y_pc = "returned" =>
    \A enc \in DOMAIN a11y_text.combinedXpathMap :
      \A f \in DOMAIN parent_frame :
        BelongsTo(enc, f) =>
          IsPrefix(AbsIframePath(parent_frame, f), a11y_text.combinedXpathMap[enc])

(***************************************************************************)
(* Properties of the handlers of the DOM settle monitor                    *)
(***************************************************************************)

\* C31: the step that handles a Page.frameStoppedLoading for a frame with a
\* recorded Document request leaves that request out of the in-flight set,
\* keeps every other request with its start time, and, when it removed the
\* last request in flight, leaves the quiet timer armed for 500 ms from now.
C31_FrameStopClearsDocumentRequest ==
  [][\A f \in DocFrames :
       (/\ last_event'.handler = "on_frame_stop"
        /\ last_event'.arg = f
        /\ f \in DOMAIN doc_by_frame)
         => /\ doc_by_frame[f] \notin inflight'
            /\ inflight' = inflight \ {doc_by_frame[f]}
            /\ meta' = Restrict(meta, inflight')
            /\ ((inflight # {} /\ inflight' = {})
                  => quiet_timer' = [due |-> now + QuietMs, live |-> TRUE])]_vars

\* the frame's Document request was the last one in flight, after another
\* request had come and gone: the quiet timer is armed
C31_Witness ==
  /\ last_event = [handler |-> "on_frame_stop", arg |-> "FA", hit |-> TRUE]
  /\ nStarted = MaxReq
  /\ inflight = {}
  /\ now > 0
  /\ quiet_timer = [due |-> now + QuietMs, live |-> TRUE]

\* C34: in every state of one wait the quiet timer is armed only while the
\* in-flight set is empty, and the keys of meta are the in-flight request ids.
C34_TimerOnlyWhenIdleAndMetaKeys ==
  /\ quiet_timer.live => inflight = {}
  /\ DOMAIN meta = inflight
  /\ \A r \in inflight : meta[r] <= now

\* the sweep has emptied a set of two requests and armed the quiet timer
C34_Witness ==
  /\ pc = "waiting"
  /\ quiet_timer.live
  /\ inflight = {}
  /\ nStarted = MaxReq
  /\ stream = "other"
  /\ now >= StallMs + SweepMs

\* C35: in every state of one wait each request id held in doc_by_frame is in
\* the in-flight set.
C35_FrameMapHoldsOnlyInflight ==
  \A f \in DOMAIN doc_by_frame : doc_by_frame[f] \in inflight

EventHandlers == {"on_finish", "on_failed", "on_cached", "on_data_url", "on_frame_stop"}

\* C36: the step that handles a finish, fail, cache-hit, data-URL response or
\* frame-stopped-loading event for a request that is not in flight changes
\* nothing of the monitor: the in-flight set, meta, doc_by_frame, the quiet
\* timer with its due time, the tasks and the done event stay as they were.
C36_UnknownRequestChangesNothing ==
  [][(last_event'.handler \in EventHandlers /\ ~last_event'.hit)
       => UNCHANGED <<inflight, meta, doc_by_frame, quiet_timer, sweep_task, timeout_task,
                      done_event, listeners, pc>>]_vars

\* a loadingFinished for a request started before the call arrives while the
\* first quiet timer is running: the timer keeps its due time
C36_Witness ==
  /\ last_event = [handler |-> "on_finish", arg |-> "none", hit |-> FALSE]
  /\ nStarted = 0
  /\ now > 0
  /\ quiet_timer = [due |-> QuietMs, live |-> TRUE]

KeyFor(idmap, label) ==
  IF label \in DOMAIN idmap THEN label
  ELSE IF matches_id_pattern(label) \/ is_digits(label)
    THEN LET b == IF is_digits(label) THEN parse_int(label) ELSE backend_part(label)
             same == {k \in DOMAIN idmap : has_backend_part(k) /\ backend_part(k) = b}
         IN IF Cardinality(same) = 1 THEN CHOOSE k \in same : TRUE ELSE <<>>
  ELSE <<>>

\* C32: in the outline returned, the anchor line of the tree (its last line)
\* is followed by the first line of the subtree of the key that is its label
\* or, when its label is no key, of the only key with the label's backend
\* id, one indent level deeper; with no such key or several the outline
\* returned is the tree itself.
C32_SplicesExactOrUniqueBackend ==
  inj_pc = "returned" =>
    LET anchor == inj_tree[Len(inj_tree)]
        key == KeyFor(inj_map, bracket_label(anchor))
    IN IF key = <<>> THEN inj_walk.out = inj_tree
       ELSE /\ Len(inj_walk.out) > Len(inj_tree)
            /\ SubSeq(inj_walk.out, 1, Len(inj_tree)) = inj_tree
            /\ inj_walk.out[Len(inj_tree) + 1]
                 = leading_space(anchor) \o <<Indent>> \o inj_map[key][1]

RECURSIVE LinesOf(_, _)
LinesOf(idmap, keys) ==
  IF keys = {} THEN 0
  ELSE LET k == CHOOSE x \in keys : TRUE IN Len(idmap[k]) + LinesOf(idmap, keys \ {k})

\* every iteration pops a frame or consumes a line, a frame is pushed for the
\* tree and once per key
InjectVariant ==
  Len(inj_tree) + LinesOf(inj_map, DOMAIN inj_map) + Cardinality(DOMAIN inj_map) + 1

\* the lines of the subtree stand in out behind the anchor, the first one
\* directly, each with the anchor's indentation and two spaces before it
SplicedUnder(out, at, sub) ==
  LET prefix == leading_space(out[at]) \o <<Indent>>
  IN /\ at < Len(out)
     /\ out[at + 1] = prefix \o sub[1]
     /\ \A j \in 1..Len(sub) : \E q \in (at + 1)..Len(out) : out[q] = prefix \o sub[j]

\* C33: the loop of inject_subtrees runs no more iterations than there are
\* lines and frames, also when a subtree holds its own label or another
\* subtree's, and is never given up before its stack is empty; no subtree is
\* spliced twice; in the outline returned the lines of every spliced subtree
\* stand behind its anchor line, the first one directly, with the anchor's
\* indentation plus two spaces.
C33_InjectTerminatesSplicingOnce ==
  /\ inj_steps <= InjectVariant
  /\ inj_pc = "walking" => (inj_walk.stack = <<>> \/ inj_steps < MaxInjectSteps)
  /\ \A i, j \in 1..Len(inj_log) : inj_log[i].enc = inj_log[j].enc => i = j
  /\ inj_pc = "returned" =>
       \A i \in 1..Len(inj_log) :
         SplicedUnder(inj_walk.out, inj_log[i].at, inj_map[inj_log[i].enc])

\* two subtrees were spliced, one of them holds its own label and one is
\* anchored inside the other
C33_Witness ==
  /\ inj_pc = "returned"
  /\ Len(inj_log) = 2
  /\ inj_log[2].at > inj_log[1].at
  /\ \E k \in DOMAIN inj_map :
       \E j \in 1..Len(inj_map[k]) : bracket_label(inj_map[k][j]) = k

(***************************************************************************)
(* Properties of the handlers of the "page" event                          *)
(***************************************************************************)

\* C38: every step that changes the active page, in the context or in the
\* Stagehand client, is a step of a new-page handler that holds the
\* page-switch lock; in particular an operation that has passed the
\* stability guard and not started yet sees no change of the active page
\* made without the lock.
C38_ActivePageChangesUnderLock ==
  [][(active_stagehand_page' # active_stagehand_page \/ st_page' # st_page)
       => lock_holder \in GuardedJobs]_<<active_stagehand_page, st_page>>

\* C39: once _page_map holds a wrapper for a Playwright page, no later step
\* stores another wrapper for that page.
C39_OneWrapperPerPage ==
  [][\A pw \in PwPages :
       page_map[pw] # NoPage => page_map'[pw] = page_map[pw]]_page_map

(***************************************************************************)
(* Properties of the workflow                                              *)
(***************************************************************************)

\* C40: in every run of the workflow the conditional node is evaluated at
\* most max_steps + 1 times, each evaluation below the limit having raised
\* step_count by one, and a run that is over went through the counter node
\* with done set or was ended by an exception.
C40_ConditionalAtMostMaxStepsPlusOne ==
  flow_pc # "idle" =>
    /\ cond_evals <= flow_state.max_steps + 1
    /\ flow_state.step_count <= cond_evals
    /\ flow_pc \in {"COUNT", "END"} => flow_state.done
====
